---- MODULE Spec2Model ----
(***************************************************************************)
(* Model of the monitoring-and-ledger engine of sui-token-transfer-tracker *)
(*   - the in-memory ledger      src/src/transaction_processor.rs          *)
(*   - the alert dispatcher      src/src/alert_system.rs                   *)
(*   - the retry policy          src/src/error.rs                          *)
(*   - the event poller          src/src/event_monitor.rs                  *)
(*   - the tracker's main loop   src/src/lib.rs                            *)
(* Unsigned 64-bit quantities are modelled at width WordBits, so that      *)
(* saturation, wrap-around and overflow panics are reachable.              *)
(***************************************************************************)
EXTENDS Integers, Sequences, FiniteSets, TLC

\* ------------------------------------------------------------------ bounds
WordBits == 4          \* width of the modelled u64 / i64
MaxEvents == 2         \* process_transfer_event calls per behaviour
MaxTime == 1           \* the clock and the event timestamps range over 0..MaxTime
MaxHistoryCap == 1     \* the configured max_history_records
MaxCooldown == 1       \* cooldown_period_seconds is 0 or MaxCooldown
MaxCalls == 2          \* calls on the alert system per behaviour
MaxRetries == 3        \* max_retries ranges over 0..MaxRetries (the poller passes 3)
MaxFetches == 2        \* answered fetches (poll tasks and force-check queries) per behaviour

U64_MAX == 2^WordBits - 1
I64_MIN == -(2^(WordBits - 1))
I64_MAX == 2^(WordBits - 1) - 1
Half == 2^(WordBits - 1)

Addresses == {"A", "B"}
Amounts == {1, Half}
Times == 0..MaxTime

VARIABLES
    \* ---- build profile
    overflow_checks,       \* TRUE: arithmetic overflow panics; FALSE: it wraps
    \* ---- clock (Utc::now / SystemTime::now, in seconds)
    now,
    \* ---- TransactionProcessor
    max_history_records,   \* config.max_history_records
    address_balances,      \* HashMap<String, u64>
    transaction_history,   \* HashMap<String, Vec<Transaction>>
    address_stats,         \* HashMap<String, AddressStats>
    ledger_call,           \* the last ledger operation: its input, the state before, its result
    n_events,              \* number of process_transfer_event calls so far
    volume_call,           \* the last get_transaction_volume_stats call and its result
    proc_pc,               \* per caller of process_transfer_event: where it stands in the call
    proc_call,             \* per caller: its event, and whether another call was under way
    write_guards,          \* per RwLock of the ledger: the callers holding its write guard
    read_guards,           \* per RwLock of the ledger: the callers holding a read guard
    lock_waiters,          \* per RwLock of the ledger: the callers waiting for it, first come first
    \* ---- AlertSystem
    enable_console_alerts, \* config.enable_console_alerts
    enable_file_alerts,    \* config.enable_file_alerts
    cooldown_period_seconds, \* config.cooldown_period_seconds
    large_transfer_threshold, \* AlertSystem.large_transfer_threshold
    thresholds,            \* AlertSystem.thresholds: HashMap<String, u64>
    last_alert_times,      \* suspicious_activity_detector.last_alert_times
    transaction_counts,    \* suspicious_activity_detector.transaction_counts
    transactions_checked,  \* per sender: the transactions check_suspicious_activity was given
    alert_channel,         \* the alerts sent on alert_sender, in order
    console_out,           \* the alerts printed by the console sink
    file_out,              \* the alerts appended to the alert file
    task_pc,               \* per task: where it stands in send_alert
    task_alert,            \* per task: the alert send_alert was called with
    task_call,             \* per task: its last call on the alert system and the result
    send_log,              \* the finished send_alert calls, in order of completion
    requested_thresholds,  \* the last threshold passed to set_threshold, per address
    n_calls,               \* number of calls on the alert system so far
    \* ---- rule evaluation on drawn inputs
    rule_call,             \* the last rule evaluated: its inputs and its outcome
    \* ---- utils::retry_operation
    retry_pc,              \* "idle", "loop" (about to invoke the operation) or "done"
    max_retries,           \* the max_retries argument
    base_delay_ms,         \* the base_delay_ms argument
    retries,               \* the local counter `retries`
    op_outcomes,           \* the outcome of each invocation of the operation, in order
    sleeps,                \* the delays slept between invocations, in order
    retry_result,          \* what retry_operation returned
    \* ---- EventMonitor
    running,               \* EventMonitor.running
    addresses,             \* EventMonitor.addresses: HashSet<String>
    address_last_checked,  \* EventMonitor.address_last_checked: HashMap<String, u64>
    poll_loops,            \* the spawned polling loops: where each stands, its tasks in flight
    poll_cycles,           \* per polling loop: the tasks of its cycle that failed, the cycle's result
    event_channel,         \* the TransferEvents sent on event_sender and not yet received
    force_check,           \* force_check_all_addresses in progress: addresses left, events sent
    monitor_call,          \* the last step of the monitor: its input, the state before, its effect
    n_fetches,             \* number of query_transfer_events calls answered so far
    \* ---- TokenTransferTracker
    tracker_running,       \* TokenTransferTracker.running
    running_guard,         \* who holds the write guard of TokenTransferTracker.running
    tracker_pc,            \* where start_monitoring / processing_loop stands
    events_received,       \* the events processing_loop took from the event channel
    monitor_task           \* the task spawned to call event_monitor.start_monitoring()

ledger_vars == <<max_history_records, address_balances, transaction_history,
                 address_stats, ledger_call, n_events, volume_call, proc_pc, proc_call,
                 write_guards, read_guards, lock_waiters>>

\* the state of the callers of process_transfer_event and of the locks
proc_vars == <<proc_pc, proc_call, write_guards, read_guards, lock_waiters>>

alert_vars == <<enable_console_alerts, enable_file_alerts, cooldown_period_seconds,
                large_transfer_threshold, thresholds, last_alert_times, alert_channel,
                console_out, file_out, task_pc, task_alert, task_call, send_log,
                requested_thresholds, n_calls, transaction_counts, transactions_checked>>

retry_vars == <<retry_pc, max_retries, base_delay_ms, retries, op_outcomes, sleeps,
                retry_result>>

monitor_vars == <<running, addresses, address_last_checked, poll_loops, poll_cycles,
                  event_channel, force_check, monitor_call, n_fetches>>

tracker_vars == <<tracker_running, running_guard, tracker_pc, events_received, monitor_task>>

vars == <<overflow_checks, now, ledger_vars, alert_vars, rule_call, retry_vars,
          monitor_vars, tracker_vars>>

\* ------------------------------------------------------------ map helpers
EmptyMap == << >>

Put(m, k, v) == [x \in (DOMAIN m) \cup {k} |-> IF x = k THEN v ELSE m[x]]

\* HashMap::entry(k).or_insert(d)
OrInsert(m, k, d) == IF k \in DOMAIN m THEN m ELSE Put(m, k, d)

\* ------------------------------------------------- fixed-width arithmetic
saturating_sub(x, y) == IF x >= y THEN x - y ELSE 0

\* a credit that wraps instead of saturating
WrappingCredit(x, y) == (x + y) % (U64_MAX + 1)

saturating_add(x, y) == IF x + y > U64_MAX THEN U64_MAX ELSE x + y

Wrap(x) == x % (U64_MAX + 1)

Min(x, y) == IF x < y THEN x ELSE y

Max(x, y) == IF x > y THEN x ELSE y

\* `x as i64` for a u64 x: the two's-complement reinterpretation
AsI64(x) == IF x > I64_MAX THEN x - (U64_MAX + 1) ELSE x

\* wrapping negation of an i64 (i64::MIN negates to itself)
WrappingNeg(x) == IF x = I64_MIN THEN I64_MIN ELSE -x

\* ------------------------------------------------------------- the ledger
\* the token type parse_transfer_event gives an event that names none
SuiToken == "0x2::sui::SUI"

\* TransferEvent, restricted to the fields the ledger reads
Events ==
    [transaction_id : {0}, sender : Addresses, recipient : Addresses,
     amount : Amounts, token_type : {SuiToken}, timestamp : Times]

\* Transaction built from an event (gas fields None, status Success)
MakeTransaction(event, id) ==
    [id |-> id, sender |-> event.sender, recipient |-> event.recipient,
     amount |-> event.amount, token_type |-> event.token_type,
     timestamp |-> event.timestamp]

\* the value update_address_stats inserts for an address it has not seen;
\* Option<u64> is a sequence of length 0 (None) or 1 (Some)
DefaultStats ==
    [total_transactions |-> 0, total_sent |-> 0, total_received |-> 0,
     first_transaction |-> << >>, last_transaction |-> << >>,
     average_transaction_amount |-> 0, largest_transaction |-> 0,
     smallest_transaction |-> U64_MAX]

\* balances after the debit of the sender and the credit of the recipient
UpdateBalances(balances, event) ==
    LET b0 == OrInsert(balances, event.sender, 0)
        b1 == [b0 EXCEPT ![event.sender] = saturating_sub(@, event.amount)]
        b2 == OrInsert(b1, event.recipient, 0)
    IN  [b2 EXCEPT ![event.recipient] = saturating_add(@, event.amount)]

\* history after the push under the sender and the push under the recipient
PushHistory(history, tx) ==
    LET h0 == OrInsert(history, tx.sender, << >>)
        h1 == [h0 EXCEPT ![tx.sender] = Append(@, tx)]
        h2 == OrInsert(h1, tx.recipient, << >>)
    IN  [h2 EXCEPT ![tx.recipient] = Append(@, tx)]

\* The statistics of one party of a transaction. `field` is "total_sent" for
\* the sender and "total_received" for the recipient. The two `+=` are plain
\* u64 additions: they panic when overflow checks are on and wrap otherwise.
\* The result is the map as the code leaves it and whether it panicked.
UpdatePartyStats(stats, address, tx, field) ==
    LET s0 == OrInsert(stats, address, DefaultStats)
        e0 == s0[address]
    IN  IF overflow_checks /\ e0.total_transactions + 1 > U64_MAX
        THEN [stats |-> s0, panic |-> TRUE]
        ELSE
        LET e1 == [e0 EXCEPT !.total_transactions = Wrap(@ + 1)]
        IN  IF overflow_checks /\ e1[field] + tx.amount > U64_MAX
            THEN [stats |-> Put(s0, address, e1), panic |-> TRUE]
            ELSE
            LET e2 == [e1 EXCEPT
                    ![field] = Wrap(@ + tx.amount),
                    !.largest_transaction = Max(@, tx.amount),
                    !.smallest_transaction = Min(@, tx.amount),
                    !.first_transaction =
                        IF @ = << >> \/ tx.timestamp < @[1] THEN <<tx.timestamp>> ELSE @,
                    !.last_transaction =
                        IF @ = << >> \/ tx.timestamp > @[1] THEN <<tx.timestamp>> ELSE @]
            IN  [stats |-> Put(s0, address, e2), panic |-> FALSE]

\* one iteration of the averaging loop
Average(e) ==
    IF e.total_transactions > 0
    THEN [e EXCEPT !.average_transaction_amount =
              Wrap(e.total_sent + e.total_received) \div e.total_transactions]
    ELSE e

\* The averaging loop over stats.iter_mut(): every entry is recomputed. With
\* overflow checks on, the first entry whose total_sent + total_received
\* overflows panics; the HashMap's iteration order is arbitrary, so any set
\* D of the other entries may have been recomputed before.
AverageAll(stats) ==
    LET over == {a \in DOMAIN stats :
                    /\ stats[a].total_transactions > 0
                    /\ stats[a].total_sent + stats[a].total_received > U64_MAX}
    IN  IF ~overflow_checks \/ over = {}
        THEN {[stats |-> [a \in DOMAIN stats |-> Average(stats[a])], panic |-> FALSE]}
        ELSE {[stats |-> [a \in DOMAIN stats |->
                             IF a \in D THEN Average(stats[a]) ELSE stats[a]],
               panic |-> TRUE] : D \in SUBSET ((DOMAIN stats) \ over)}

\* update_address_stats: the outcomes (stats map, panicked) it can produce
update_address_stats(stats, sender, recipient, tx) ==
    LET s == UpdatePartyStats(stats, sender, tx, "total_sent")
    IN  IF s.panic THEN {s}
        ELSE LET r == UpdatePartyStats(s.stats, recipient, tx, "total_received")
             IN  IF r.panic THEN {r} ELSE AverageAll(r.stats)

\* a truncation of the list as it is, without the sort
Unsorted(s) == s

\* sort_by(|a, b| b.timestamp.cmp(&a.timestamp)): a stable sort, newest first
InsertDesc(sorted, x) ==
    LET k == Cardinality({i \in 1..Len(sorted) : sorted[i].timestamp >= x.timestamp})
    IN  SubSeq(sorted, 1, k) \o <<x>> \o SubSeq(sorted, k + 1, Len(sorted))

RECURSIVE SortDesc(_)
SortDesc(s) ==
    IF s = << >> THEN << >>
    ELSE InsertDesc(SortDesc(SubSeq(s, 1, Len(s) - 1)), s[Len(s)])

\* Vec::truncate
Truncate(s, n) == IF Len(s) > n THEN SubSeq(s, 1, n) ELSE s

\* what enforce_history_limits does to one list
LimitList(transactions, max_records) ==
    IF Len(transactions) > max_records
    THEN Truncate(SortDesc(transactions), max_records)
    ELSE transactions

enforce_history_limits(history) ==
    [a \in DOMAIN history |-> LimitList(history[a], max_history_records)]

\* sender_balance_change = -(event.amount as i64): the cast reinterprets the
\* bits, the negation of i64::MIN overflows
NegOverflows(amount) == AsI64(amount) = I64_MIN

NoEvent ==
    [transaction_id |-> 0, sender |-> "", recipient |-> "", amount |-> 0,
     token_type |-> "", timestamp |-> 0]

LedgerCall(op, event, bs, br, result, sc, rc, removed) ==
    [op |-> op, event |-> event, before_sender |-> bs, before_recipient |-> br,
     result |-> result, sender_balance_change |-> sc, receiver_balance_change |-> rc,
     removed |-> removed]

\* get_address_balance
get_address_balance(balances, address) ==
    IF address \in DOMAIN balances THEN balances[address] ELSE 0

\* process_transfer_event, as one step: the three write locks are taken at
\* its start and held to its end. A panic unwinds out of the call: the
\* guards are dropped and the maps stay as the code had left them.
process_transfer_event(ev) ==
    /\ n_events < MaxEvents
    /\ LET event == [ev EXCEPT !.transaction_id = n_events + 1]
           tx == MakeTransaction(event, event.transaction_id)
           bs == get_address_balance(address_balances, event.sender)
           br == get_address_balance(address_balances, event.recipient)
           pushed == PushHistory(transaction_history, tx)
       IN  /\ address_balances' = UpdateBalances(address_balances, event)
           /\ \E out \in update_address_stats(address_stats, event.sender, event.recipient, tx) :
                /\ address_stats' = out.stats
                /\ IF out.panic
                   THEN /\ transaction_history' = pushed
                        /\ ledger_call' = LedgerCall("process_transfer_event", event, bs, br,
                                                     "panic", 0, 0, 0)
                   ELSE /\ transaction_history' = enforce_history_limits(pushed)
                        /\ ledger_call' =
                             IF overflow_checks /\ NegOverflows(event.amount)
                             THEN LedgerCall("process_transfer_event", event, bs, br,
                                             "panic", 0, 0, 0)
                             ELSE LedgerCall("process_transfer_event", event, bs, br, "Ok",
                                             WrappingNeg(AsI64(event.amount)),
                                             AsI64(event.amount), 0)
    /\ n_events' = n_events + 1
    /\ UNCHANGED <<overflow_checks, now, max_history_records, volume_call, proc_vars,
                   alert_vars, rule_call, retry_vars, monitor_vars, tracker_vars>>

RECURSIVE SumOver(_, _)
SumOver(f, S) ==
    IF S = {} THEN 0
    ELSE LET a == CHOOSE x \in S : TRUE IN f[a] + SumOver(f, S \ {a})

\* a cleanup that also forgets the balance and the stats of every address
\* whose history list it has emptied
CleanupForgetsEmptied(max_age_seconds) ==
    /\ LET Keep(tx) == saturating_sub(now, tx.timestamp) <= max_age_seconds
           kept == [a \in DOMAIN transaction_history |-> SelectSeq(transaction_history[a], Keep)]
           live == {a \in DOMAIN kept : kept[a] # << >>}
           removed_count == SumOver([a \in DOMAIN transaction_history |->
                                Len(transaction_history[a]) - Len(kept[a])],
                                DOMAIN transaction_history)
       IN  /\ transaction_history' = kept
           /\ address_balances' =
                  [a \in (DOMAIN address_balances) \cap live |-> address_balances[a]]
           /\ address_stats' = [a \in (DOMAIN address_stats) \cap live |-> address_stats[a]]
           /\ ledger_call' = LedgerCall("cleanup_old_transactions", NoEvent, 0, 0, "Ok",
                                        0, 0, removed_count)
    /\ UNCHANGED <<overflow_checks, now, max_history_records, n_events, volume_call,
                   proc_vars, alert_vars, rule_call, retry_vars, monitor_vars,
                   tracker_vars>>

\* a retain that drops a transaction as old as the limit
IsRetainedYounger(current_time, tx, max_age_seconds) ==
    saturating_sub(current_time, tx.timestamp) < max_age_seconds

\* the predicate of Vec::retain in cleanup_old_transactions
is_retained(current_time, tx, max_age_seconds) ==
    saturating_sub(current_time, tx.timestamp) <= max_age_seconds

\* cleanup_old_transactions: only the history lock is taken
cleanup_old_transactions(max_age_seconds) ==
    /\ LET current_time == now
           Keep(tx) == is_retained(current_time, tx, max_age_seconds)
           kept == [a \in DOMAIN transaction_history |-> SelectSeq(transaction_history[a], Keep)]
           removed_count == SumOver([a \in DOMAIN transaction_history |->
                                Len(transaction_history[a]) - Len(kept[a])],
                                DOMAIN transaction_history)
       IN  /\ transaction_history' = kept
           /\ ledger_call' = LedgerCall("cleanup_old_transactions", NoEvent, 0, 0, "Ok",
                                        0, 0, removed_count)
    /\ UNCHANGED <<overflow_checks, now, max_history_records, address_balances,
                   address_stats, n_events, volume_call, proc_vars, alert_vars, rule_call,
                   retry_vars, monitor_vars, tracker_vars>>

\* the clock advances
Tick ==
    /\ now < MaxTime
    /\ now' = now + 1
    /\ UNCHANGED <<overflow_checks, ledger_vars, alert_vars, rule_call, retry_vars,
                   monitor_vars, tracker_vars>>

\* ------------------------------------ get_transaction_volume_stats
SecondsPerHour == 3600

\* the transactions of every history list, one list after the other (a
\* transaction is pushed on the list of its sender and on that of its
\* recipient)
RECURSIVE AllListed(_, _)
AllListed(history, keys) ==
    IF keys = {} THEN << >>
    ELSE LET a == CHOOSE x \in keys : TRUE
         IN  history[a] \o AllListed(history, keys \ {a})

RECURSIVE SumAmounts(_)
SumAmounts(transactions) ==
    IF transactions = << >> THEN 0
    ELSE Head(transactions).amount + SumAmounts(Tail(transactions))

\* The map get_transaction_volume_stats builds: for every list and every
\* transaction of it with timestamp >= start_time, `entry(token_type) +=
\* amount`, a plain u64 addition (it panics when overflow checks are on and
\* wraps otherwise). time_range_hours * 3600 is exact for the hours drawn.
volume_stats(history, current_time, time_range_hours) ==
    LET start_time == saturating_sub(current_time, time_range_hours * SecondsPerHour)
        counted == SelectSeq(AllListed(history, DOMAIN history),
                             LAMBDA tx : tx.timestamp >= start_time)
        tokens == {counted[i].token_type : i \in 1..Len(counted)}
        total(token) == SumAmounts(SelectSeq(counted, LAMBDA tx : tx.token_type = token))
    IN  IF overflow_checks /\ \E token \in tokens : total(token) > U64_MAX
        THEN [result |-> "panic", volume |-> EmptyMap]
        ELSE [result |-> "Ok", volume |-> [token \in tokens |-> Wrap(total(token))]]

NoVolumeCall == [op |-> "none", time_range_hours |-> 0, result |-> "none", volume |-> EmptyMap]

\* get_transaction_volume_stats: the history is read, nothing is written
get_transaction_volume_stats(time_range_hours) ==
    /\ LET out == volume_stats(transaction_history, now, time_range_hours)
       IN  volume_call' = [op |-> "get_transaction_volume_stats",
                           time_range_hours |-> time_range_hours,
                           result |-> out.result, volume |-> out.volume]
    /\ UNCHANGED <<overflow_checks, now, max_history_records, address_balances,
                   transaction_history, address_stats, ledger_call, n_events, proc_vars,
                   alert_vars, rule_call, retry_vars, monitor_vars, tracker_vars>>

\* ---------------- the ledger's operations, guard by guard and write by write
\* the tasks that call the one TransactionProcessor, one call each
Procs == {1, 2}

\* the three RwLocks of the TransactionProcessor
Locks == {"address_balances", "transaction_history", "address_stats"}

\* what a caller's step leaves alone
OutsideProcs ==
    UNCHANGED <<overflow_checks, now, max_history_records, ledger_call, volume_call,
                alert_vars, rule_call, retry_vars, monitor_vars, tracker_vars>>

\* A call of a caller: the operation, the event of a process_transfer_event,
\* whether another call was under way when it began, and what it has read
\* or returned so far.
NoProcCall ==
    [op |-> "none", event |-> NoEvent, concurrent |-> FALSE, balances |-> EmptyMap,
     stats |-> EmptyMap, returned |-> << >>]

\* the lock a caller at pc is waiting for ("none" when it is not waiting)
lock_of(pc) ==
    CASE pc \in {"write_address_balances", "read_address_balances"} -> "address_balances"
      [] pc \in {"write_transaction_history", "read_transaction_history"} ->
             "transaction_history"
      [] pc \in {"write_address_stats", "read_address_stats"} -> "address_stats"
      [] OTHER -> "none"

\* The waiters when caller t comes to pc: `.read().await` and
\* `.write().await` queue behind the callers already waiting for the lock
\* (tokio's RwLock hands the lock out in the order of arrival).
enqueue(waiters, t, pc) ==
    IF lock_of(pc) = "none" THEN waiters
    ELSE [waiters EXCEPT ![lock_of(pc)] = Append(@, t)]

\* the guards when caller t drops every guard it holds
drop_guards(guards, t) == [lock \in DOMAIN guards |-> guards[lock] \ {t}]

\* a lock that never makes a writer wait
LockAlwaysFree(lock) == TRUE

\* RwLock::write() returns when no other guard of the lock is held
lock_is_free(lock) == write_guards[lock] = {} /\ read_guards[lock] = {}

\* the caller is the first of those waiting for the lock
is_first_waiter(t, lock) == lock_waiters[lock] # << >> /\ Head(lock_waiters[lock]) = t

\* the call begins: the next thing it does is address_balances.write()
process_call(t, ev) ==
    /\ proc_pc[t] = "idle"
    /\ n_events < MaxEvents
    /\ proc_pc' = [proc_pc EXCEPT ![t] = "write_address_balances"]
    /\ lock_waiters' = enqueue(lock_waiters, t, "write_address_balances")
    /\ proc_call' = [proc_call EXCEPT
                        ![t] = [NoProcCall EXCEPT
                                   !.op = "process_transfer_event",
                                   !.event = [ev EXCEPT !.transaction_id = n_events + 1],
                                   !.concurrent = \E u \in Procs \ {t} :
                                                     proc_pc[u] \notin {"idle", "done"}]]
    /\ n_events' = n_events + 1
    /\ UNCHANGED <<address_balances, transaction_history, address_stats, write_guards,
                   read_guards>>
    /\ OutsideProcs

\* `self.<lock>.write().await`: process_transfer_event takes the three guards
\* in the order address_balances, transaction_history, address_stats and
\* keeps them to the end of the call; cleanup_old_transactions takes the one
\* of transaction_history
acquire_write_guard(t, lock, next_pc) ==
    /\ proc_pc[t] = "write_" \o lock
    /\ is_first_waiter(t, lock)
    /\ lock_is_free(lock)
    /\ write_guards' = [write_guards EXCEPT ![lock] = @ \cup {t}]
    /\ proc_pc' = [proc_pc EXCEPT ![t] = next_pc]
    /\ lock_waiters' = enqueue([lock_waiters EXCEPT ![lock] = Tail(@)], t, next_pc)
    /\ UNCHANGED <<address_balances, transaction_history, address_stats, proc_call,
                   read_guards, n_events>>
    /\ OutsideProcs

\* the debit of the sender and the credit of the recipient
write_balances(t) ==
    /\ proc_pc[t] = "balances"
    /\ address_balances' = UpdateBalances(address_balances, proc_call[t].event)
    /\ proc_pc' = [proc_pc EXCEPT ![t] = "history"]
    /\ UNCHANGED <<transaction_history, address_stats, proc_call, write_guards,
                   read_guards, lock_waiters, n_events>>
    /\ OutsideProcs

\* the two pushes on the history
write_history(t) ==
    /\ proc_pc[t] = "history"
    /\ transaction_history' =
           PushHistory(transaction_history,
                       MakeTransaction(proc_call[t].event, proc_call[t].event.transaction_id))
    /\ proc_pc' = [proc_pc EXCEPT ![t] = "stats"]
    /\ UNCHANGED <<address_balances, address_stats, proc_call, write_guards, read_guards,
                   lock_waiters, n_events>>
    /\ OutsideProcs

\* update_address_stats; a panic unwinds out of the call and drops the guards
write_stats(t) ==
    /\ proc_pc[t] = "stats"
    /\ LET event == proc_call[t].event
           tx == MakeTransaction(event, event.transaction_id)
       IN  \E out \in update_address_stats(address_stats, event.sender, event.recipient, tx) :
               /\ address_stats' = out.stats
               /\ IF out.panic
                  THEN /\ proc_pc' = [proc_pc EXCEPT ![t] = "done"]
                       /\ write_guards' = drop_guards(write_guards, t)
                  ELSE /\ proc_pc' = [proc_pc EXCEPT ![t] = "limits"]
                       /\ UNCHANGED write_guards
    /\ UNCHANGED <<address_balances, transaction_history, proc_call, read_guards,
                   lock_waiters, n_events>>
    /\ OutsideProcs

\* enforce_history_limits, then the return (or the panic of the negation):
\* the guards are dropped
limit_history_and_return(t) ==
    /\ proc_pc[t] = "limits"
    /\ transaction_history' = enforce_history_limits(transaction_history)
    /\ proc_pc' = [proc_pc EXCEPT ![t] = "done"]
    /\ write_guards' = drop_guards(write_guards, t)
    /\ UNCHANGED <<address_balances, address_stats, proc_call, read_guards, lock_waiters,
                   n_events>>
    /\ OutsideProcs

\* the operations that only read the ledger
ReadOps ==
    {"export_json", "export_csv", "get_processor_stats", "get_all_balances",
     "get_address_history", "get_all_stats"}

\* a get_processor_stats that reads the stats before the balances
LockSequenceStatsFirst(op) ==
    CASE op = "process_transfer_event" ->
             <<"address_balances", "transaction_history", "address_stats">>
      [] op = "get_processor_stats" -> <<"address_stats", "address_balances">>
      [] op \in {"export_json", "export_csv"} -> <<"address_balances", "address_stats">>
      [] op \in {"cleanup_old_transactions", "get_address_history"} ->
             <<"transaction_history">>
      [] op = "get_all_balances" -> <<"address_balances">>
      [] OTHER -> <<"address_stats">>

\* the locks an operation takes, in the order of its `.read().await` and
\* `.write().await`
lock_sequence(op) ==
    CASE op = "process_transfer_event" ->
             <<"address_balances", "transaction_history", "address_stats">>
      [] op \in {"export_json", "export_csv", "get_processor_stats"} ->
             <<"address_balances", "address_stats">>
      [] op \in {"cleanup_old_transactions", "get_address_history"} ->
             <<"transaction_history">>
      [] op = "get_all_balances" -> <<"address_balances">>
      [] OTHER -> <<"address_stats">>

\* Where a reading operation stands once it has the read guard of `lock`.
\* In export_data's JSON arm each guard is a temporary of the statement that
\* serializes one map (serde_json's json! turns every value into a Value in
\* a statement of its own), so the map is read and the guard dropped before
\* the next guard is asked for; the other operations bind their guards to
\* locals and ask for the next one with the first in hand.
after_read_guard(op, lock) ==
    LET seq == lock_sequence(op)
        k == CHOOSE i \in 1..Len(seq) : seq[i] = lock
    IN  IF op = "export_json" THEN "json_" \o lock
        ELSE IF k < Len(seq) THEN "read_" \o seq[k + 1]
        ELSE IF op = "export_csv" THEN "csv_rows"
        ELSE IF op = "get_processor_stats" THEN "processor_stats"
        ELSE "query"

\* a call of cleanup_old_transactions or of a reading operation begins: the
\* next thing it does is to ask for its first guard
begin_call(t, op) ==
    /\ proc_pc[t] = "idle"
    /\ LET pc == (IF op \in ReadOps THEN "read_" ELSE "write_") \o lock_sequence(op)[1]
       IN  /\ proc_pc' = [proc_pc EXCEPT ![t] = pc]
           /\ lock_waiters' = enqueue(lock_waiters, t, pc)
    /\ proc_call' = [proc_call EXCEPT
                        ![t] = [NoProcCall EXCEPT
                                   !.op = op,
                                   !.concurrent = \E u \in Procs \ {t} :
                                                     proc_pc[u] \notin {"idle", "done"}]]
    /\ UNCHANGED <<address_balances, transaction_history, address_stats, write_guards,
                   read_guards, n_events>>
    /\ OutsideProcs

\* `self.<lock>.read().await`: returns when the caller is first in line and
\* no write guard of the lock is held
acquire_read_guard(t, lock) ==
    /\ proc_pc[t] = "read_" \o lock
    /\ is_first_waiter(t, lock)
    /\ write_guards[lock] = {}
    /\ read_guards' = [read_guards EXCEPT ![lock] = @ \cup {t}]
    /\ LET pc == after_read_guard(proc_call[t].op, lock)
       IN  /\ proc_pc' = [proc_pc EXCEPT ![t] = pc]
           /\ lock_waiters' = enqueue([lock_waiters EXCEPT ![lock] = Tail(@)], t, pc)
    /\ UNCHANGED <<address_balances, transaction_history, address_stats, proc_call,
                   write_guards, n_events>>
    /\ OutsideProcs

\* export_data, JSON: "balances" is serialized and its guard dropped at the
\* end of that statement; the caller holds no guard until the next statement
\* asks for the read guard of address_stats
json_balances(t) ==
    /\ proc_pc[t] = "json_address_balances"
    /\ proc_call' = [proc_call EXCEPT ![t].balances = address_balances]
    /\ read_guards' = drop_guards(read_guards, t)
    /\ proc_pc' = [proc_pc EXCEPT ![t] = "json_next"]
    /\ UNCHANGED <<address_balances, transaction_history, address_stats, write_guards,
                   lock_waiters, n_events>>
    /\ OutsideProcs

\* export_data, JSON: the statement of "stats" asks for the read guard of
\* address_stats
json_ask_stats(t) ==
    /\ proc_pc[t] = "json_next"
    /\ LET pc == "read_" \o lock_sequence("export_json")[2]
       IN  /\ proc_pc' = [proc_pc EXCEPT ![t] = pc]
           /\ lock_waiters' = enqueue(lock_waiters, t, pc)
    /\ UNCHANGED <<address_balances, transaction_history, address_stats, proc_call,
                   write_guards, read_guards, n_events>>
    /\ OutsideProcs

\* export_data, JSON: "stats" is serialized, its guard dropped, the text
\* returned
json_stats(t) ==
    /\ proc_pc[t] = "json_address_stats"
    /\ proc_call' = [proc_call EXCEPT ![t].stats = address_stats, ![t].returned = <<"Ok">>]
    /\ read_guards' = drop_guards(read_guards, t)
    /\ proc_pc' = [proc_pc EXCEPT ![t] = "done"]
    /\ UNCHANGED <<address_balances, transaction_history, address_stats, write_guards,
                   lock_waiters, n_events>>
    /\ OutsideProcs

\* export_data, CSV, with both read guards in hand: one row for every address
\* of balances that has stats
csv_rows(t) ==
    /\ proc_pc[t] = "csv_rows"
    /\ LET rows == (DOMAIN address_balances) \cap (DOMAIN address_stats)
       IN  proc_call' = [proc_call EXCEPT
                            ![t].balances = [a \in rows |-> address_balances[a]],
                            ![t].stats = [a \in rows |-> address_stats[a]],
                            ![t].returned = <<"Ok">>]
    /\ read_guards' = drop_guards(read_guards, t)
    /\ proc_pc' = [proc_pc EXCEPT ![t] = "done"]
    /\ UNCHANGED <<address_balances, transaction_history, address_stats, write_guards,
                   lock_waiters, n_events>>
    /\ OutsideProcs

\* get_processor_stats, with both read guards in hand: the sums are plain u64
\* additions (a panic with overflow checks on, the wrapped sum otherwise)
processor_stats(t) ==
    /\ proc_pc[t] = "processor_stats"
    /\ LET total_transactions ==
               SumOver([a \in DOMAIN address_stats |-> address_stats[a].total_transactions],
                       DOMAIN address_stats)
           total_volume ==
               SumOver([a \in DOMAIN address_stats |->
                           address_stats[a].total_sent + address_stats[a].total_received],
                       DOMAIN address_stats)
       IN  proc_call' =
               [proc_call EXCEPT
                   ![t].returned =
                       IF overflow_checks /\ (total_transactions > U64_MAX
                                              \/ total_volume > U64_MAX)
                       THEN <<"panic">>
                       ELSE <<[total_addresses |-> Cardinality(DOMAIN address_balances),
                               total_transactions |-> Wrap(total_transactions),
                               total_volume |-> Wrap(total_volume)]>>]
    /\ read_guards' = drop_guards(read_guards, t)
    /\ proc_pc' = [proc_pc EXCEPT ![t] = "done"]
    /\ UNCHANGED <<address_balances, transaction_history, address_stats, write_guards,
                   lock_waiters, n_events>>
    /\ OutsideProcs

\* cleanup_old_transactions, with the write guard of the history in hand
retain_history(t, max_age_seconds) ==
    /\ proc_pc[t] = "retain"
    /\ LET current_time == now
           Keep(tx) == is_retained(current_time, tx, max_age_seconds)
           kept == [a \in DOMAIN transaction_history |-> SelectSeq(transaction_history[a], Keep)]
       IN  /\ transaction_history' = kept
           /\ proc_call' =
                  [proc_call EXCEPT
                      ![t].returned =
                          <<SumOver([a \in DOMAIN transaction_history |->
                                        Len(transaction_history[a]) - Len(kept[a])],
                                    DOMAIN transaction_history)>>]
    /\ write_guards' = drop_guards(write_guards, t)
    /\ proc_pc' = [proc_pc EXCEPT ![t] = "done"]
    /\ UNCHANGED <<address_balances, address_stats, read_guards, lock_waiters, n_events>>
    /\ OutsideProcs

\* get_all_balances, get_address_history, get_all_stats: the map is copied
\* under its read guard
read_query(t) ==
    /\ proc_pc[t] = "query"
    /\ proc_call' = [proc_call EXCEPT ![t].returned = <<"Ok">>]
    /\ read_guards' = drop_guards(read_guards, t)
    /\ proc_pc' = [proc_pc EXCEPT ![t] = "done"]
    /\ UNCHANGED <<address_balances, transaction_history, address_stats, write_guards,
                   lock_waiters, n_events>>
    /\ OutsideProcs

\* TransactionProcessor::with_config: three empty maps
LedgerInit ==
    /\ max_history_records = MaxHistoryCap
    /\ address_balances = EmptyMap
    /\ transaction_history = EmptyMap
    /\ address_stats = EmptyMap
    /\ ledger_call = LedgerCall("none", NoEvent, 0, 0, "none", 0, 0, 0)
    /\ n_events = 0
    /\ volume_call = NoVolumeCall
    /\ proc_pc = [t \in Procs |-> "idle"]
    /\ proc_call = [t \in Procs |-> NoProcCall]
    /\ write_guards = [lock \in Locks |-> {}]
    /\ read_guards = [lock \in Locks |-> {}]
    /\ lock_waiters = [lock \in Locks |-> << >>]

\* ------------------------------------------------------- the alert system
Tasks == {1, 2}
AlertAddresses == {"A"}
TransactionIds == {1}
Components == {"event_monitor"}

\* HashMap::get as an Option: a sequence of length 0 (None) or 1 (Some)
Get(m, k) == IF k \in DOMAIN m THEN <<m[k]>> ELSE << >>

NoAlert ==
    [kind |-> "none", subject |-> "", value |-> 0, threshold |-> 0,
     severity |-> "none", timestamp |-> 0]

\* Alert::LowBalance { address, balance, threshold, severity, timestamp }
LowBalance(address, balance, threshold, severity, timestamp) ==
    [kind |-> "LowBalance", subject |-> address, value |-> balance,
     threshold |-> threshold, severity |-> severity, timestamp |-> timestamp]

\* Alert::LargeTransfer { amount, transaction_id, severity, timestamp, .. }
LargeTransfer(transaction_id, amount, severity, timestamp) ==
    [kind |-> "LargeTransfer", subject |-> transaction_id, value |-> amount,
     threshold |-> 0, severity |-> severity, timestamp |-> timestamp]

\* Alert::NetworkError { component, severity: Error, timestamp, .. }
NetworkError(component, timestamp) ==
    [kind |-> "NetworkError", subject |-> component, value |-> 0,
     threshold |-> 0, severity |-> "Error", timestamp |-> timestamp]

\* Alert::SuspiciousActivity { address, activity_type, risk_level, severity,
\* timestamp, .. }
SuspiciousActivity(address, activity_type, risk_level, severity, timestamp) ==
    [kind |-> "SuspiciousActivity", subject |-> address, value |-> 0, threshold |-> 0,
     severity |-> severity, timestamp |-> timestamp, activity_type |-> activity_type,
     risk_level |-> risk_level]

\* get_alert_key: format!("low_balance_{}", address) and the like
get_alert_key(alert) ==
    CASE alert.kind = "LowBalance" -> <<"low_balance", alert.subject>>
      [] alert.kind = "LargeTransfer" -> <<"large_transfer", alert.subject>>
      [] alert.kind = "NetworkError" -> <<"network_error", alert.subject>>
      [] alert.kind = "SuspiciousActivity" ->
             <<"suspicious", alert.subject, alert.activity_type>>
      [] OTHER -> <<"none", alert.subject>>

\* a check_balance_alert whose Error band includes balance = threshold / 2
LowBalanceOutcomeInclusive(threshold, balance) ==
    IF threshold # << >> /\ balance < threshold[1]
    THEN IF balance < threshold[1] \div 10 THEN "Critical"
         ELSE IF balance <= threshold[1] \div 2 THEN "Error"
         ELSE "Warning"
    ELSE "none"

\* The severity check_balance_alert gives a balance, "none" when it raises no
\* alert. `threshold` is self.thresholds.get(address).
low_balance_outcome(threshold, balance) ==
    IF threshold # << >> /\ balance < threshold[1]
    THEN IF balance < threshold[1] \div 10 THEN "Critical"
         ELSE IF balance < threshold[1] \div 2 THEN "Error"
         ELSE "Warning"
    ELSE "none"

\* The severity check_large_transfer gives an amount, "none" when it raises
\* no alert. The two products are plain u64 multiplications: "panic" when one
\* overflows with overflow checks on, the wrapped product otherwise.
large_transfer_outcome(amount, threshold) ==
    IF amount > threshold
    THEN IF overflow_checks /\ threshold * 10 > U64_MAX THEN "panic"
         ELSE IF amount > Wrap(threshold * 10) THEN "Critical"
         ELSE IF overflow_checks /\ threshold * 5 > U64_MAX THEN "panic"
         ELSE IF amount > Wrap(threshold * 5) THEN "Error"
         ELSE "Warning"
    ELSE "none"

\* an is_in_cooldown that treats a key it has never seen as in cooldown
IsInCooldownUnseenKey(table, alert_key, current_time) ==
    IF alert_key \in DOMAIN table
    THEN current_time - table[alert_key] < cooldown_period_seconds
    ELSE TRUE

\* is_in_cooldown, on the table it reads
is_in_cooldown(table, alert_key, current_time) ==
    IF alert_key \in DOMAIN table
    THEN current_time - table[alert_key] < cooldown_period_seconds
    ELSE FALSE

\* record_alert_time: the table as the call leaves it. The insert goes into
\* a clone of last_alert_times, which is dropped at the end of the call.
record_alert_time(table, alert_key, current_time) ==
    LET last_alert_times_clone == Put(table, alert_key, current_time)
    IN  table

\* A call on the alert system: its arguments and its result, with, for the
\* claims, the number of send_alert calls finished when it began, the
\* threshold set_threshold had been asked to set for its address, and the time
\* of its cooldown check.
NoCall == [op |-> "none", subject |-> "", value |-> 0, result |-> "none", began |-> 0,
           requested |-> << >>, checked_at |-> 0]

Call(op, subject, value, result) ==
    [op |-> op, subject |-> subject, value |-> value, result |-> result,
     began |-> Len(send_log),
     requested |-> IF op = "check_balance_alert"
                   THEN Get(requested_thresholds, subject) ELSE << >>,
     checked_at |-> 0]

Idle(t) == task_pc[t] = "idle" /\ n_calls < MaxCalls

\* a call that returns without reaching send_alert
Return(t, call) ==
    /\ task_call' = [task_call EXCEPT ![t] = call]
    /\ n_calls' = n_calls + 1
    /\ UNCHANGED <<task_pc, task_alert, send_log, alert_channel, console_out, file_out,
                   last_alert_times>>

\* a call that reaches send_alert(alert)
EnterSendAlert(t, call, alert) ==
    /\ task_call' = [task_call EXCEPT ![t] = call]
    /\ task_alert' = [task_alert EXCEPT ![t] = alert]
    /\ task_pc' = [task_pc EXCEPT ![t] = "cooldown_check"]
    /\ n_calls' = n_calls + 1
    /\ UNCHANGED <<send_log, alert_channel, console_out, file_out, last_alert_times>>

\* the configuration, and the detector's counts, which only
\* check_suspicious_activity looks at
AlertConfigUnchanged ==
    UNCHANGED <<enable_console_alerts, enable_file_alerts, cooldown_period_seconds,
                large_transfer_threshold, thresholds, transaction_counts,
                transactions_checked>>

OutsideAlerts ==
    UNCHANGED <<overflow_checks, now, ledger_vars, rule_call, retry_vars, monitor_vars,
                tracker_vars>>

\* set_threshold: logs a warning; self.thresholds is not written
set_threshold(t, address, threshold) ==
    /\ Idle(t)
    /\ requested_thresholds' = Put(requested_thresholds, address, threshold)
    /\ Return(t, Call("set_threshold", address, threshold, "Ok"))
    /\ AlertConfigUnchanged
    /\ OutsideAlerts

\* check_balance_alert
check_balance_alert(t, address, balance) ==
    /\ Idle(t)
    /\ LET threshold == Get(thresholds, address)
           severity == low_balance_outcome(threshold, balance)
       IN  IF severity = "none"
           THEN Return(t, Call("check_balance_alert", address, balance, "Ok"))
           ELSE EnterSendAlert(t, Call("check_balance_alert", address, balance, "running"),
                               LowBalance(address, balance, threshold[1], severity, now))
    /\ UNCHANGED requested_thresholds
    /\ AlertConfigUnchanged
    /\ OutsideAlerts

\* check_large_transfer
check_large_transfer(t, transaction_id, amount) ==
    /\ Idle(t)
    /\ LET severity == large_transfer_outcome(amount, large_transfer_threshold)
       IN  CASE severity = "none" ->
                  Return(t, Call("check_large_transfer", transaction_id, amount, "Ok"))
             [] severity = "panic" ->
                  Return(t, Call("check_large_transfer", transaction_id, amount, "panic"))
             [] OTHER ->
                  EnterSendAlert(t, Call("check_large_transfer", transaction_id, amount, "running"),
                                 LargeTransfer(transaction_id, amount, severity, now))
    /\ UNCHANGED requested_thresholds
    /\ AlertConfigUnchanged
    /\ OutsideAlerts

\* the count a sender must exceed to be a high-frequency sender
HighFrequencyLimit == 10

\* the transactions of one sender a behaviour has checked at most
MaxChecked == HighFrequencyLimit + 2

\* check_high_frequency_transactions: the alert (a sequence of length 0 or 1)
\* for a transaction of `sender`, from the count the detector holds for it
check_high_frequency_transactions(counts, sender, current_time) ==
    LET count == IF sender \in DOMAIN counts THEN counts[sender] ELSE 0
    IN  IF count > HighFrequencyLimit
        THEN <<SuspiciousActivity(sender, "high_frequency_transactions", "Medium",
                                  "Warning", current_time)>>
        ELSE << >>

\* check_large_transfer_to_new_address: `amount > large_transfer_threshold * 2`,
\* a plain u64 multiplication ("panic" when it overflows with overflow checks
\* on, the wrapped product otherwise)
check_large_transfer_to_new_address(sender, amount, threshold) ==
    IF overflow_checks /\ threshold * 2 > U64_MAX THEN "panic"
    ELSE IF amount > Wrap(threshold * 2)
         THEN <<SuspiciousActivity(sender, "large_transfer_to_new_address", "High",
                                   "Error", now)>>
         ELSE << >>

\* check_suspicious_activity on a slice of one transaction: check_transaction
\* asks the three detectors in turn (check_unusual_patterns returns None) and
\* the first alert goes to send_alert. No detector writes transaction_counts.
check_suspicious_activity(t, sender, amount) ==
    /\ task_pc[t] = "idle"
    /\ (IF sender \in DOMAIN transactions_checked
        THEN transactions_checked[sender] ELSE 0) < MaxChecked
    /\ transactions_checked' =
           Put(transactions_checked, sender,
               (IF sender \in DOMAIN transactions_checked
                THEN transactions_checked[sender] ELSE 0) + 1)
    /\ LET current_time == now
           frequent == check_high_frequency_transactions(transaction_counts, sender,
                                                         current_time)
           large == check_large_transfer_to_new_address(sender, amount,
                                                        large_transfer_threshold)
       IN  IF frequent # << >>
           THEN EnterSendAlert(t, Call("check_suspicious_activity", sender, amount, "running"),
                               frequent[1])
           ELSE IF large = "panic"
                THEN Return(t, Call("check_suspicious_activity", sender, amount, "panic"))
                ELSE IF large # << >>
                     THEN EnterSendAlert(t, Call("check_suspicious_activity", sender, amount,
                                                 "running"), large[1])
                     ELSE Return(t, Call("check_suspicious_activity", sender, amount, "Ok"))
    /\ UNCHANGED <<requested_thresholds, transaction_counts>>
    /\ UNCHANGED <<enable_console_alerts, enable_file_alerts, cooldown_period_seconds,
                   large_transfer_threshold, thresholds>>
    /\ OutsideAlerts

\* send_network_error_alert
send_network_error_alert(t, component) ==
    /\ Idle(t)
    /\ EnterSendAlert(t, Call("send_network_error_alert", component, 0, "running"),
                      NetworkError(component, now))
    /\ UNCHANGED requested_thresholds
    /\ AlertConfigUnchanged
    /\ OutsideAlerts

\* one finished send_alert call
Sent(t, dispatched, result) ==
    [key |-> get_alert_key(task_alert[t]), alert |-> task_alert[t],
     began |-> task_call[t].began,
     checked_at |-> IF task_pc[t] = "cooldown_check" THEN now ELSE task_call[t].checked_at,
     finished_at |-> now, dispatched |-> dispatched, result |-> result]

Finish(t, dispatched, result) ==
    /\ send_log' = Append(send_log, Sent(t, dispatched, result))
    /\ task_call' = [task_call EXCEPT ![t].result = result]
    /\ task_pc' = [task_pc EXCEPT ![t] = "idle"]
    /\ UNCHANGED <<task_alert, requested_thresholds, n_calls>>

\* send_alert, first part: the cooldown check. In cooldown, the alert is
\* skipped and the call returns Ok.
send_alert_cooldown_check(t) ==
    /\ task_pc[t] = "cooldown_check"
    /\ IF is_in_cooldown(last_alert_times, get_alert_key(task_alert[t]), now)
       THEN Finish(t, FALSE, "Ok")
       ELSE /\ task_pc' = [task_pc EXCEPT ![t] = "fan_out"]
            /\ task_call' = [task_call EXCEPT ![t].checked_at = now]
            /\ UNCHANGED <<task_alert, send_log, requested_thresholds, n_calls>>
    /\ UNCHANGED <<alert_channel, console_out, file_out, last_alert_times>>
    /\ AlertConfigUnchanged
    /\ OutsideAlerts

\* send_alert, second part: the sinks in order (console, file; the email and
\* discord sinks only log), then record_alert_time, then the channel. An
\* error of the file sink returns from send_alert at once (`?`).
send_alert_fan_out(t, file_ok) ==
    /\ task_pc[t] = "fan_out"
    /\ console_out' = IF enable_console_alerts
                      THEN Append(console_out, task_alert[t]) ELSE console_out
    /\ IF enable_file_alerts /\ ~file_ok
       THEN /\ Finish(t, TRUE, "Err")
            /\ UNCHANGED <<file_out, last_alert_times, alert_channel>>
       ELSE /\ file_out' = IF enable_file_alerts
                           THEN Append(file_out, task_alert[t]) ELSE file_out
            /\ last_alert_times' =
                   record_alert_time(last_alert_times, get_alert_key(task_alert[t]), now)
            /\ alert_channel' = Append(alert_channel, task_alert[t])
            /\ Finish(t, TRUE, "Ok")
    /\ AlertConfigUnchanged
    /\ OutsideAlerts

\* AlertSystem::with_config: no thresholds, an empty cooldown table
AlertInit(consoles, files, cooldowns, large_thresholds) ==
    /\ enable_console_alerts \in consoles
    /\ enable_file_alerts \in files
    /\ cooldown_period_seconds \in cooldowns
    /\ large_transfer_threshold \in large_thresholds
    /\ thresholds = EmptyMap
    /\ last_alert_times = EmptyMap
    /\ alert_channel = << >>
    /\ console_out = << >>
    /\ file_out = << >>
    /\ task_pc = [t \in Tasks |-> "idle"]
    /\ task_alert = [t \in Tasks |-> NoAlert]
    /\ task_call = [t \in Tasks |-> NoCall]
    /\ send_log = << >>
    /\ requested_thresholds = EmptyMap
    /\ n_calls = 0
    /\ transaction_counts = EmptyMap
    /\ transactions_checked = EmptyMap

\* --------------------------------------------- error.rs: retry_operation
\* the variants of TrackerError
ErrorKinds ==
    {"NetworkError", "SuiClientError", "ParseError", "Configuration", "IoError",
     "SerializationError", "TomlError", "TomlSerializeError", "InvalidAddress",
     "TimeoutError", "ValidationError", "DatabaseError"}

\* what one invocation of the operation returns: Ok or an error of some kind
Outcomes == {"Ok"} \cup ErrorKinds

\* an is_retriable that is true of every kind of error
IsRetriableAnyError(kind) == kind \in ErrorKinds

\* TrackerError::is_retriable
is_retriable(kind) == kind \in {"NetworkError", "TimeoutError", "SuiClientError"}

\* a guard that stops one retry short
RetryGuardOneFewer(count, limit, kind) == count + 1 < limit /\ is_retriable(kind)

\* the guard of the retry arm: `Err(e) if retries < max_retries && e.is_retriable()`
retry_guard(count, limit, kind) == count < limit /\ is_retriable(kind)

OutsideRetry ==
    UNCHANGED <<overflow_checks, now, ledger_vars, alert_vars, rule_call, monitor_vars,
                tracker_vars>>

\* retry_operation(operation, max_retries, base_delay_ms) is called
retry_operation_call(n, base) ==
    /\ retry_pc = "idle"
    /\ retry_pc' = "loop"
    /\ max_retries' = n
    /\ base_delay_ms' = base
    /\ retries' = 0
    /\ UNCHANGED <<op_outcomes, sleeps, retry_result>>
    /\ OutsideRetry

\* one turn of the loop of retry_operation: the operation is invoked and
\* answers `outcome`; the match returns or sleeps and goes round again.
\* The delay is base_delay_ms * 2^(retries - 1), retries already incremented.
retry_operation_attempt(outcome) ==
    /\ retry_pc = "loop"
    /\ op_outcomes' = Append(op_outcomes, outcome)
    /\ IF outcome = "Ok"
       THEN /\ retry_result' = "Ok"
            /\ retry_pc' = "done"
            /\ UNCHANGED <<retries, sleeps>>
       ELSE IF retry_guard(retries, max_retries, outcome)
       THEN /\ retries' = retries + 1
            /\ sleeps' = Append(sleeps, base_delay_ms * 2^retries)
            /\ UNCHANGED <<retry_pc, retry_result>>
       ELSE /\ retry_result' = outcome
            /\ retry_pc' = "done"
            /\ UNCHANGED <<retries, sleeps>>
    /\ UNCHANGED <<max_retries, base_delay_ms>>
    /\ OutsideRetry

RetryInit ==
    /\ retry_pc = "idle"
    /\ max_retries = 0
    /\ base_delay_ms = 0
    /\ retries = 0
    /\ op_outcomes = << >>
    /\ sleeps = << >>
    /\ retry_result = "none"

\* ------------------------------------------- event_monitor.rs: EventMonitor
MonitorAddresses == {"A", "B"}

\* the strings add_address is called with: two well-formed addresses and one
\* that is not ("0x" and 64 hex digits)
AddressInputs == MonitorAddresses \cup {"bad"}

\* the addresses remove_address is called with; "A" is the configured address
RemovedAddresses == {"B"}

\* the length of a well-formed address: "0x" and 64 hex digits
AddressLen == 66

\* what is_valid_sui_address looks at in a string; "bad" is "0x" and 63 hex
\* digits
address_text(address) ==
    IF address = "bad"
    THEN [starts_with_0x |-> TRUE, len |-> 65, hex |-> TRUE]
    ELSE [starts_with_0x |-> TRUE, len |-> AddressLen, hex |-> TRUE]

\* a validation that looks at the prefix only
IsValidPrefixOnly(address) == address_text(address).starts_with_0x

\* Config::is_valid_sui_address
is_valid_sui_address(address) ==
    /\ address_text(address).starts_with_0x
    /\ address_text(address).len = AddressLen
    /\ address_text(address).hex

\* validate_addresses: the registered addresses that are not valid
validate_addresses(registered) == {a \in registered : ~is_valid_sui_address(a)}

\* the polling loops a behaviour may spawn
LoopIds == {1, 2}

\* the timestamps of the events the remote ledger answers with
EventTimes == {0, 1}

\* SuiEvent, restricted to the fields parse_transfer_event reads; recipient is
\* "" when parsed_json has no value.recipient
SuiEvents ==
    [sender : {"A"}, recipient : {"", "B"}, amount : {1}, timestamp : EventTimes]

\* the answers of query_transfer_events: no event, or one
Batches == UNION {[1..n -> SuiEvents] : n \in {0, 1}}

\* longer answers, for the behaviours of one poll task
BatchLengths == {0, 1, 2}

LongBatches == UNION {[1..n -> SuiEvents] : n \in BatchLengths}

\* TrackerResult<Vec<SuiEvent>>: what a fetch (retry_operation around
\* query_transfer_events, or the bare query of a force check) comes back with
NoFetch == [ok |-> FALSE, events |-> << >>]

FetchResults == {NoFetch} \cup {[ok |-> TRUE, events |-> b] : b \in Batches}

\* parse_transfer_event: Err (no element) when the recipient is missing
parse_transfer_event(event) ==
    IF event.recipient = ""
    THEN << >>
    ELSE <<[transaction_id |-> 0, sender |-> event.sender, recipient |-> event.recipient,
            amount |-> event.amount, timestamp |-> event.timestamp]>>

\* a filter that also lets through an event as old as the watermark
IsNewEventInclusive(event, last_time) == event.timestamp >= last_time

\* the filter of the poll task: `event.timestamp > last_time`
is_new_event(event, last_time) == event.timestamp > last_time

\* a loop over the batch that a parse error ends
RECURSIVE NewEventsStopAtParseError(_, _)
NewEventsStopAtParseError(events, last_time) ==
    IF events = << >> THEN << >>
    ELSE IF ~is_new_event(Head(events), last_time)
         THEN NewEventsStopAtParseError(Tail(events), last_time)
         ELSE IF parse_transfer_event(Head(events)) = << >>
              THEN << >>
              ELSE parse_transfer_event(Head(events))
                       \o NewEventsStopAtParseError(Tail(events), last_time)

\* the TransferEvents the poll task sends for a fetched batch, in order: of
\* the events later than last_time, those that parse
RECURSIVE NewEvents(_, _)
NewEvents(events, last_time) ==
    IF events = << >> THEN << >>
    ELSE LET rest == NewEvents(Tail(events), last_time)
         IN  IF is_new_event(Head(events), last_time)
             THEN parse_transfer_event(Head(events)) \o rest
             ELSE rest

\* a force check that sends only the events later than time 0
ParsedEventsNewerOnly(events) == NewEvents(events, 0)

\* the TransferEvents a force check sends for a fetched batch: all that parse
RECURSIVE ParsedEvents(_)
ParsedEvents(events) ==
    IF events = << >> THEN << >>
    ELSE parse_transfer_event(Head(events)) \o ParsedEvents(Tail(events))

\* a watermark update that does not look at the number of events sent
AdvanceWatermarkAlways(table, address, current_time, new_events) ==
    Put(table, address, current_time)

\* a watermark update that resets the watermark when the poll found nothing
AdvanceWatermarkOrReset(table, address, current_time, new_events) ==
    IF new_events > 0 THEN Put(table, address, current_time) ELSE Put(table, address, 0)

\* `if new_events > 0 { last_checked.insert(address, current_time) }`
advance_watermark(table, address, current_time, new_events) ==
    IF new_events > 0 THEN Put(table, address, current_time) ELSE table

\* a match whose Err arm advances the watermark as well
WatermarkAdvancesOnFailure(table, address, current_time, result, new_events) ==
    IF result.ok THEN advance_watermark(table, address, current_time, new_events)
    ELSE Put(table, address, current_time)

\* the watermark table after the task's `match result`: the Ok arm advances
\* the watermark if events were sent, the Err arm only logs
watermark_after_fetch(table, address, current_time, result, new_events) ==
    IF result.ok THEN advance_watermark(table, address, current_time, new_events)
    ELSE table

NoCycle == [failed |-> {}, result |-> "none"]

\* a join that gives up the cycle when a task's fetch failed
TaskFailureAbortsCycle(cycle, in_flight, address, result) ==
    IF result.ok
    THEN [in_flight |-> in_flight \ {address}, failed |-> cycle.failed,
          result |-> IF in_flight \ {address} = {} THEN "Ok" ELSE "running"]
    ELSE [in_flight |-> {}, failed |-> cycle.failed \cup {address}, result |-> "Err"]

\* The poll cycle when the task of `address` ends: the other tasks stay in
\* flight; check_new_events_for_addresses awaits every task and returns
\* Ok(()) after the last, whatever the fetches answered.
task_finished(cycle, in_flight, address, result) ==
    [in_flight |-> in_flight \ {address},
     failed |-> IF result.ok THEN cycle.failed ELSE cycle.failed \cup {address},
     result |-> IF in_flight \ {address} = {} THEN "Ok" ELSE "running"]

\* The last step of the monitor: the operation, its argument, the answer of
\* the remote ledger, the events it sent, the watermark it read, the running
\* flag and the number of polling loops it found, and the count a force
\* check returned (none while it has not returned).
MonitorCall(op, address, result, sent, last_time) ==
    [op |-> op, address |-> address, ok |-> result.ok, events |-> result.events,
     sent |-> sent, last_time |-> last_time, was_running |-> running,
     loops_before |-> Len(poll_loops), returned |-> << >>]

NoMonitorCall ==
    [op |-> "none", address |-> "", ok |-> FALSE, events |-> << >>, sent |-> << >>,
     last_time |-> 0, was_running |-> FALSE, loops_before |-> 0, returned |-> << >>]

\* what no step of the monitor touches (the tracker's own fields are framed
\* by the specification the step is part of)
OutsideMonitor ==
    UNCHANGED <<overflow_checks, now, ledger_vars, alert_vars, rule_call, retry_vars>>

\* add_address: the address is validated, inserted, and given watermark 0 if
\* it was not in the set. The write guard of `addresses` waits for a force
\* check, which holds the read guard from its first query to its last.
add_address(address) ==
    /\ ~force_check.active
    /\ IF is_valid_sui_address(address)
       THEN /\ addresses' = addresses \cup {address}
            /\ address_last_checked' =
                   IF address \notin addresses
                   THEN Put(address_last_checked, address, 0)
                   ELSE address_last_checked
       ELSE UNCHANGED <<addresses, address_last_checked>>
    /\ monitor_call' = MonitorCall("add_address", address,
                                   [ok |-> is_valid_sui_address(address), events |-> << >>],
                                   << >>, 0)
    /\ UNCHANGED <<running, poll_loops, poll_cycles, event_channel, force_check, n_fetches>>
    /\ OutsideMonitor

\* remove_address: the address and its watermark are removed
remove_address(address) ==
    /\ ~force_check.active
    /\ addresses' = addresses \ {address}
    /\ address_last_checked' =
           IF address \in addresses
           THEN [a \in (DOMAIN address_last_checked) \ {address} |-> address_last_checked[a]]
           ELSE address_last_checked
    /\ monitor_call' = MonitorCall("remove_address", address, [ok |-> TRUE, events |-> << >>],
                                   << >>, 0)
    /\ UNCHANGED <<running, poll_loops, poll_cycles, event_channel, force_check, n_fetches>>
    /\ OutsideMonitor

\* a start_monitoring that spawns a polling loop whatever the running flag
StartMonitoringAlwaysSpawns ==
    /\ Len(poll_loops) < Cardinality(LoopIds)
    /\ running' = TRUE
    /\ poll_loops' = Append(poll_loops, {})
    /\ poll_cycles' = Append(poll_cycles, NoCycle)
    /\ monitor_call' = MonitorCall("start_monitoring", "", NoFetch, << >>, 0)
    /\ UNCHANGED <<addresses, address_last_checked, event_channel, force_check, n_fetches>>
    /\ OutsideMonitor

\* start_monitoring: under the write guard of `running`, return if the flag
\* is set; otherwise set it and spawn the polling loop (a behaviour spawns no
\* more loops than there are LoopIds)
start_monitoring ==
    /\ running \/ Len(poll_loops) < Cardinality(LoopIds)
    /\ running' = TRUE
    /\ poll_loops' = IF running THEN poll_loops ELSE Append(poll_loops, {})
    /\ poll_cycles' = IF running THEN poll_cycles ELSE Append(poll_cycles, NoCycle)
    /\ monitor_call' = MonitorCall("start_monitoring", "", NoFetch, << >>, 0)
    /\ UNCHANGED <<addresses, address_last_checked, event_channel, force_check, n_fetches>>
    /\ OutsideMonitor

\* stop_monitoring: the flag is cleared
stop_monitoring ==
    /\ running' = FALSE
    /\ monitor_call' = MonitorCall("stop_monitoring", "", NoFetch, << >>, 0)
    /\ UNCHANGED <<addresses, address_last_checked, poll_loops, poll_cycles, event_channel,
                   force_check, n_fetches>>
    /\ OutsideMonitor

\* The spawned loop, at interval_timer.tick(): check_new_events_for_addresses
\* snapshots the address set and spawns one task per address; the loop comes
\* back to the tick when every task has finished. poll_loops[l] is the set of
\* addresses whose task is in flight.
poll_tick(l) ==
    /\ l \in 1..Len(poll_loops)
    /\ poll_loops[l] = {}
    /\ n_fetches < MaxFetches
    /\ poll_loops' = [poll_loops EXCEPT ![l] = addresses]
    /\ poll_cycles' = [poll_cycles EXCEPT
                          ![l] = [failed |-> {},
                                  result |-> IF addresses = {} THEN "Ok" ELSE "running"]]
    /\ monitor_call' = MonitorCall("poll_tick", "", NoFetch, << >>, 0)
    /\ UNCHANGED <<running, addresses, address_last_checked, event_channel, force_check,
                   n_fetches>>
    /\ OutsideMonitor

\* One task of a poll cycle, from the answer of retry_operation on: under the
\* write guard of address_last_checked it reads the clock and the watermark,
\* sends the new events that parse, and advances the watermark if there were
\* any.
fetch_task(l, address, result) ==
    /\ l \in 1..Len(poll_loops)
    /\ address \in poll_loops[l]
    /\ n_fetches < MaxFetches
    /\ LET current_time == now
           last_time == IF address \in DOMAIN address_last_checked
                        THEN address_last_checked[address] ELSE 0
           sent == IF result.ok THEN NewEvents(result.events, last_time) ELSE << >>
       IN  /\ event_channel' = event_channel \o sent
           /\ address_last_checked' =
                  watermark_after_fetch(address_last_checked, address, current_time, result,
                                        Len(sent))
           /\ monitor_call' = MonitorCall("fetch_task", address, result, sent, last_time)
    /\ LET next == task_finished(poll_cycles[l], poll_loops[l], address, result)
       IN  /\ poll_loops' = [poll_loops EXCEPT ![l] = next.in_flight]
           /\ poll_cycles' = [poll_cycles EXCEPT
                                 ![l] = [failed |-> next.failed, result |-> next.result]]
    /\ n_fetches' = n_fetches + 1
    /\ UNCHANGED <<running, addresses, force_check>>
    /\ OutsideMonitor

NoForceCheck == [active |-> FALSE, pending |-> {}, total |-> 0]

\* force_check_all_addresses, up to its first query: the read guard of
\* `addresses` is taken; with no address it returns Ok(0) at once
force_check_all_addresses ==
    /\ ~force_check.active
    /\ n_fetches < MaxFetches
    /\ force_check' = [active |-> addresses # {}, pending |-> addresses, total |-> 0]
    /\ monitor_call' =
           [MonitorCall("force_check_all_addresses", "", NoFetch, << >>, 0)
                EXCEPT !.returned = IF addresses = {} THEN <<0>> ELSE << >>]
    /\ UNCHANGED <<running, addresses, address_last_checked, poll_loops, poll_cycles,
                   event_channel, n_fetches>>
    /\ OutsideMonitor

\* force_check_all_addresses, one turn of its loop over the addresses (in the
\* order the HashSet yields them): the query is answered and every event that
\* parses is sent; no watermark is read or written. After the last address
\* the call returns Ok(total_events).
force_check_query(address, result) ==
    /\ force_check.active
    /\ address \in force_check.pending
    /\ n_fetches < MaxFetches
    /\ LET sent == IF result.ok THEN ParsedEvents(result.events) ELSE << >>
           pending == force_check.pending \ {address}
           total_events == force_check.total + Len(sent)
       IN  /\ event_channel' = event_channel \o sent
           /\ force_check' = IF pending = {} THEN NoForceCheck
                              ELSE [active |-> TRUE, pending |-> pending,
                                    total |-> total_events]
           /\ monitor_call' =
                  [MonitorCall("force_check_query", address, result, sent, 0)
                       EXCEPT !.returned = IF pending = {} THEN <<total_events>> ELSE << >>]
    /\ n_fetches' = n_fetches + 1
    /\ UNCHANGED <<running, addresses, address_last_checked, poll_loops, poll_cycles>>
    /\ OutsideMonitor

\* EventMonitor::new, then the add_address of the configured addresses
MonitorInit ==
    /\ running = FALSE
    /\ addresses = {"A"}
    /\ address_last_checked = [a \in {"A"} |-> 0]
    /\ poll_loops = << >>
    /\ poll_cycles = << >>
    /\ event_channel = << >>
    /\ force_check = NoForceCheck
    /\ monitor_call = NoMonitorCall
    /\ n_fetches = 0

\* ------------------------------------------- lib.rs: TokenTransferTracker
\* the max age maintenance_tasks passes to cleanup_old_transactions
MaintenanceMaxAge == 86400

\* TokenTransferTracker::start_monitoring, up to processing_loop: the write
\* guard of `running` is taken and kept for the rest of the call; the flag is
\* set; a task is spawned to call event_monitor.start_monitoring()
tracker_start_monitoring ==
    /\ tracker_pc = "new"
    /\ running_guard = "none"
    /\ running_guard' = "start_monitoring"
    /\ IF tracker_running
       THEN /\ tracker_pc' = "returned"
            /\ UNCHANGED <<tracker_running, monitor_task>>
       ELSE /\ tracker_running' = TRUE
            /\ monitor_task' = "spawned"
            /\ tracker_pc' = "select"
    /\ UNCHANGED events_received
    /\ UNCHANGED monitor_vars
    /\ OutsideMonitor

\* the spawned task: event_monitor.start_monitoring()
spawned_start_monitoring ==
    /\ monitor_task = "spawned"
    /\ monitor_task' = "done"
    /\ start_monitoring
    /\ UNCHANGED <<tracker_running, running_guard, tracker_pc, events_received>>

\* processing_loop, the branch `_ = event_receiver.recv()`: the event is
\* taken from the channel and dropped; handle_events() does nothing and
\* returns Ok
processing_loop_recv_event ==
    /\ tracker_pc = "select"
    /\ event_channel # << >>
    /\ events_received' = Append(events_received, Head(event_channel))
    /\ event_channel' = Tail(event_channel)
    /\ UNCHANGED <<tracker_running, running_guard, tracker_pc, monitor_task>>
    /\ UNCHANGED <<running, addresses, address_last_checked, poll_loops, poll_cycles,
                   force_check, monitor_call, n_fetches>>
    /\ OutsideMonitor

\* processing_loop, the branch of the 30 s maintenance timer:
\* maintenance_tasks() cleans the ledger's history (its health-check alert
\* goes through send_alert and is left to the alert system's behaviours)
processing_loop_maintenance ==
    /\ tracker_pc = "select"
    /\ cleanup_old_transactions(MaintenanceMaxAge)

\* processing_loop, the branch of the 100 ms sleep: it reads `running`, whose
\* write guard start_monitoring still holds, so the read never returns
processing_loop_stop_check ==
    /\ tracker_pc = "select"
    /\ tracker_pc' = IF running_guard # "none" THEN "blocked"
                     ELSE IF tracker_running THEN "select" ELSE "returned"
    /\ UNCHANGED <<tracker_running, running_guard, events_received, monitor_task>>
    /\ UNCHANGED monitor_vars
    /\ OutsideMonitor

\* TokenTransferTracker::new
TrackerInit ==
    /\ tracker_running = FALSE
    /\ running_guard = "none"
    /\ tracker_pc = "new"
    /\ events_received = << >>
    /\ monitor_task = "none"

NoRule == [op |-> "none", threshold |-> << >>, value |-> 0, outcome |-> "none"]

Init ==
    /\ overflow_checks \in BOOLEAN
    /\ now = 0
    /\ LedgerInit
    /\ AlertInit({TRUE}, {FALSE}, {MaxCooldown}, {1})
    /\ rule_call = NoRule
    /\ RetryInit
    /\ MonitorInit
    /\ TrackerInit

ProcessTransferEvent == \E ev \in Events : process_transfer_event(ev)

CleanupOldTransactions == \E max_age_seconds \in 0..MaxTime : cleanup_old_transactions(max_age_seconds)

Next ==
    \/ ProcessTransferEvent
    \/ CleanupOldTransactions
    \/ Tick

Spec == Init /\ [][Next]_vars

\* ------------------------------------------- the ledger with volume queries
\* events of two token types
VolumeEvents ==
    [transaction_id : {0}, sender : Addresses, recipient : Addresses,
     amount : {1}, token_type : {SuiToken, "0x2::coin::OTHER"}, timestamp : Times]

VolumeNext ==
    \/ \E ev \in VolumeEvents : process_transfer_event(ev)
    \/ CleanupOldTransactions
    \/ \E time_range_hours \in {0, 1} : get_transaction_volume_stats(time_range_hours)
    \/ Tick

VolumeSpec == Init /\ [][VolumeNext]_vars

\* ------------------------------- concurrent callers of process_transfer_event
ProcNext ==
    \/ \E t \in Procs, ev \in Events : process_call(t, ev)
    \/ \E t \in Procs : acquire_write_guard(t, "address_balances", "write_transaction_history")
    \/ \E t \in Procs : acquire_write_guard(t, "transaction_history", "write_address_stats")
    \/ \E t \in Procs : acquire_write_guard(t, "address_stats", "balances")
    \/ \E t \in Procs : write_balances(t)
    \/ \E t \in Procs : write_history(t)
    \/ \E t \in Procs : write_stats(t)
    \/ \E t \in Procs : limit_history_and_return(t)

ProcSpec == Init /\ [][ProcNext]_vars

\* ------------------------------- concurrent callers of all ledger operations
\* the events of the concurrent callers: no guard is taken or dropped on the
\* timestamp of an event
LockEvents == {ev \in Events : ev.timestamp = 0}

LockNext ==
    \/ \E t \in Procs, ev \in LockEvents : process_call(t, ev)
    \/ \E t \in Procs, op \in ReadOps \cup {"cleanup_old_transactions"} : begin_call(t, op)
    \/ \E t \in Procs :
           /\ proc_call[t].op = "process_transfer_event"
           /\ \/ acquire_write_guard(t, "address_balances", "write_transaction_history")
              \/ acquire_write_guard(t, "transaction_history", "write_address_stats")
              \/ acquire_write_guard(t, "address_stats", "balances")
    \/ \E t \in Procs :
           /\ proc_call[t].op = "cleanup_old_transactions"
           /\ acquire_write_guard(t, "transaction_history", "retain")
    \/ \E t \in Procs, lock \in Locks : acquire_read_guard(t, lock)
    \/ \E t \in Procs : write_balances(t)
    \/ \E t \in Procs : write_history(t)
    \/ \E t \in Procs : write_stats(t)
    \/ \E t \in Procs : limit_history_and_return(t)
    \/ \E t \in Procs : json_balances(t)
    \/ \E t \in Procs : json_ask_stats(t)
    \/ \E t \in Procs : json_stats(t)
    \/ \E t \in Procs : csv_rows(t)
    \/ \E t \in Procs : processor_stats(t)
    \/ \E t \in Procs, max_age_seconds \in 0..MaxTime : retain_history(t, max_age_seconds)
    \/ \E t \in Procs : read_query(t)

LockSpec == Init /\ [][LockNext]_vars

\* the runtime runs a task that can take a step
LockFairSpec == LockSpec /\ WF_vars(LockNext)

\* ---------------------------------------------- the alert system's behaviours
AlertSpecInit ==
    /\ overflow_checks \in BOOLEAN
    /\ now = 0
    /\ LedgerInit
    /\ AlertInit(BOOLEAN, BOOLEAN, {0, MaxCooldown}, {1})
    /\ rule_call = NoRule
    /\ RetryInit
    /\ MonitorInit
    /\ TrackerInit

SetThreshold ==
    \E t \in Tasks, address \in AlertAddresses, threshold \in {Half} :
        set_threshold(t, address, threshold)

CheckBalanceAlert ==
    \E t \in Tasks, address \in AlertAddresses, balance \in {1} :
        check_balance_alert(t, address, balance)

CheckLargeTransfer ==
    \E t \in Tasks, transaction_id \in TransactionIds, amount \in {1, U64_MAX} :
        check_large_transfer(t, transaction_id, amount)

SendNetworkErrorAlert ==
    \E t \in Tasks, component \in Components : send_network_error_alert(t, component)

SendAlertCooldownCheck == \E t \in Tasks : send_alert_cooldown_check(t)

SendAlertFanOut == \E t \in Tasks, file_ok \in BOOLEAN : send_alert_fan_out(t, file_ok)

AlertNext ==
    \/ SetThreshold
    \/ CheckBalanceAlert
    \/ CheckLargeTransfer
    \/ SendNetworkErrorAlert
    \/ SendAlertCooldownCheck
    \/ SendAlertFanOut
    \/ Tick

AlertSpec == AlertSpecInit /\ [][AlertNext]_vars

\* --------------------------- the suspicious-activity checks of one sender
\* (a transfer large enough for the large-transfer detector only among the
\* first MaxCalls calls)
SuspiciousNext ==
    \/ \E t \in Tasks, sender \in AlertAddresses,
          amount \in (IF n_calls < MaxCalls THEN {1, U64_MAX} ELSE {1}) :
           check_suspicious_activity(t, sender, amount)
    \/ SendAlertCooldownCheck
    \/ SendAlertFanOut

SuspiciousSpecInit ==
    /\ overflow_checks \in BOOLEAN
    /\ now = 0
    /\ LedgerInit
    /\ AlertInit({TRUE}, {FALSE}, {0, MaxCooldown}, {1})
    /\ rule_call = NoRule
    /\ RetryInit
    /\ MonitorInit
    /\ TrackerInit

SuspiciousSpec == SuspiciousSpecInit /\ [][SuspiciousNext]_vars

\* ------------------------------------- the alert rules on drawn inputs
RuleSpecInit ==
    /\ overflow_checks \in BOOLEAN
    /\ now = 0
    /\ LedgerInit
    /\ AlertInit({TRUE}, {FALSE}, {MaxCooldown}, {1})
    /\ rule_call = NoRule
    /\ RetryInit
    /\ MonitorInit
    /\ TrackerInit

\* the severity rule of check_balance_alert, applied to a drawn
\* thresholds.get(address) and a drawn balance
EvalCheckBalanceAlert ==
    /\ \E threshold \in {<< >>} \cup {<<x>> : x \in 0..U64_MAX}, balance \in 0..U64_MAX :
          rule_call' = [op |-> "check_balance_alert", threshold |-> threshold,
                        value |-> balance,
                        outcome |-> low_balance_outcome(threshold, balance)]
    /\ UNCHANGED <<overflow_checks, now, ledger_vars, alert_vars, retry_vars, monitor_vars,
                   tracker_vars>>

\* the severity rule of check_large_transfer, applied to a drawn
\* large_transfer_threshold and a drawn amount
EvalCheckLargeTransfer ==
    /\ \E threshold \in 0..U64_MAX, amount \in 0..U64_MAX :
          rule_call' = [op |-> "check_large_transfer", threshold |-> <<threshold>>,
                        value |-> amount,
                        outcome |-> large_transfer_outcome(amount, threshold)]
    /\ UNCHANGED <<overflow_checks, now, ledger_vars, alert_vars, retry_vars, monitor_vars,
                   tracker_vars>>

RuleNext ==
    \/ EvalCheckBalanceAlert
    \/ EvalCheckLargeTransfer

RuleSpec == RuleSpecInit /\ [][RuleNext]_vars

\* --------------------------------------------- retry_operation's behaviours
RetrySpecInit ==
    /\ overflow_checks = FALSE
    /\ now = 0
    /\ LedgerInit
    /\ AlertInit({TRUE}, {FALSE}, {MaxCooldown}, {1})
    /\ rule_call = NoRule
    /\ RetryInit
    /\ MonitorInit
    /\ TrackerInit

RetryOperationCall == \E n \in 0..MaxRetries, base \in {1} : retry_operation_call(n, base)

RetryOperationAttempt == \E outcome \in Outcomes : retry_operation_attempt(outcome)

RetryNext ==
    \/ RetryOperationCall
    \/ RetryOperationAttempt

RetrySpec == RetrySpecInit /\ [][RetryNext]_vars

\* ------------------------------------------------ the monitor's behaviours
MonitorSpecInit ==
    /\ overflow_checks = FALSE
    /\ now = 0
    /\ LedgerInit
    /\ AlertInit({TRUE}, {FALSE}, {MaxCooldown}, {1})
    /\ rule_call = NoRule
    /\ RetryInit
    /\ MonitorInit
    /\ TrackerInit

AddAddress == \E address \in AddressInputs : add_address(address) /\ UNCHANGED tracker_vars

RemoveAddress ==
    \E address \in RemovedAddresses : remove_address(address) /\ UNCHANGED tracker_vars

StartMonitoring == start_monitoring /\ UNCHANGED tracker_vars

StopMonitoring == stop_monitoring /\ UNCHANGED tracker_vars

PollTick == \E l \in LoopIds : poll_tick(l) /\ UNCHANGED tracker_vars

FetchTask ==
    \E l \in LoopIds, address \in MonitorAddresses, result \in FetchResults :
        fetch_task(l, address, result) /\ UNCHANGED tracker_vars

ForceCheckAllAddresses == force_check_all_addresses /\ UNCHANGED tracker_vars

ForceCheckQuery ==
    \E address \in MonitorAddresses, result \in FetchResults :
        force_check_query(address, result) /\ UNCHANGED tracker_vars

MonitorNext ==
    \/ AddAddress
    \/ RemoveAddress
    \/ StartMonitoring
    \/ StopMonitoring
    \/ PollTick
    \/ FetchTask
    \/ ForceCheckAllAddresses
    \/ ForceCheckQuery
    \/ Tick

MonitorSpec == MonitorSpecInit /\ [][MonitorNext]_vars

\* ------------------------- the polling loops and the registry, no force check
PollNext ==
    \/ AddAddress
    \/ RemoveAddress
    \/ StartMonitoring
    \/ StopMonitoring
    \/ PollTick
    \/ FetchTask
    \/ Tick

PollSpec == MonitorSpecInit /\ [][PollNext]_vars

\* ------------------------------------- one polling loop on longer batches
BatchNext ==
    \/ StartMonitoring
    \/ PollTick
    \/ \E l \in LoopIds, address \in MonitorAddresses, b \in LongBatches :
           fetch_task(l, address, [ok |-> TRUE, events |-> b]) /\ UNCHANGED tracker_vars
    \/ Tick

BatchSpec == MonitorSpecInit /\ [][BatchNext]_vars

\* ------------------------------------------------ the tracker's behaviours
TrackerSpecInit ==
    /\ overflow_checks = FALSE
    /\ now = 0
    /\ LedgerInit
    /\ AlertInit({TRUE}, {FALSE}, {MaxCooldown}, {1})
    /\ rule_call = NoRule
    /\ RetryInit
    /\ MonitorInit
    /\ TrackerInit

TrackerStartMonitoring == tracker_start_monitoring

SpawnedStartMonitoring == spawned_start_monitoring

ProcessingLoopRecvEvent == processing_loop_recv_event

ProcessingLoopMaintenance == processing_loop_maintenance

ProcessingLoopStopCheck == processing_loop_stop_check

TrackerNext ==
    \/ TrackerStartMonitoring
    \/ SpawnedStartMonitoring
    \/ PollTick
    \/ FetchTask
    \/ ProcessingLoopRecvEvent
    \/ ProcessingLoopMaintenance
    \/ ProcessingLoopStopCheck
    \/ Tick

TrackerSpec == TrackerSpecInit /\ [][TrackerNext]_vars

\* ------------------------------------------------------------------ claims
IsProcessCall == ledger_call.op = "process_transfer_event"

\* C1 (as stated): after process_transfer_event applied an event of amount a,
\* balance(sender) = max(0, before - a) and balance(recipient) = before + a
\* clamped at the 64-bit maximum, for any sender and any recipient.
C1_AnySenderAnyRecipient ==
    IsProcessCall =>
        LET e == ledger_call.event IN
        /\ get_address_balance(address_balances, e.sender)
               = Max(0, ledger_call.before_sender - e.amount)
        /\ get_address_balance(address_balances, e.recipient)
               = Min(U64_MAX, ledger_call.before_recipient + e.amount)

\* C1 (amended): the two equations hold when sender and recipient differ; when
\* they are the same address its one balance is debited, saturating at 0, and
\* then credited, saturating at the maximum. No balance is a wrapped value.
C1_BalanceUpdate ==
    IsProcessCall =>
        LET e == ledger_call.event
            debited == Max(0, ledger_call.before_sender - e.amount)
        IN  /\ e.sender # e.recipient =>
                 /\ address_balances[e.sender] = debited
                 /\ address_balances[e.recipient]
                        = Min(U64_MAX, ledger_call.before_recipient + e.amount)
            /\ e.sender = e.recipient =>
                 address_balances[e.sender] = Min(U64_MAX, debited + e.amount)

\* C1 witness: an event between two addresses whose debit saturates at zero
\* and whose credit saturates at the maximum
C1_Witness ==
    /\ IsProcessCall
    /\ ledger_call.event.sender # ledger_call.event.recipient
    /\ ledger_call.before_sender < ledger_call.event.amount
    /\ ledger_call.before_recipient + ledger_call.event.amount > U64_MAX

\* C2: after any sequence of process_transfer_event and
\* cleanup_old_transactions calls every stored history list has at most
\* max_history_records entries.
C2_HistoryBounded ==
    \A a \in DOMAIN transaction_history :
        Len(transaction_history[a]) <= max_history_records

\* C3: for every address whose stats have total_transactions > 0,
\* average_transaction_amount = (total_sent + total_received) / total_transactions.
C3_AverageIsTotalOverCount ==
    \A a \in DOMAIN address_stats :
        address_stats[a].total_transactions > 0 =>
            address_stats[a].average_transaction_amount
                = (address_stats[a].total_sent + address_stats[a].total_received)
                      \div address_stats[a].total_transactions

\* C4: process_transfer_event never fails: it returns Ok for every amount and
\* every prior state, and its balance changes are -amount and +amount.
C4_NeverFails ==
    IsProcessCall =>
        /\ ledger_call.result = "Ok"
        /\ ledger_call.sender_balance_change = -ledger_call.event.amount
        /\ ledger_call.receiver_balance_change = ledger_call.event.amount

\* two finished send_alert calls i, j of one alert key, j called after i had
\* returned
OneAfterTheOther(i, j) ==
    /\ i \in 1..Len(send_log)
    /\ j \in 1..Len(send_log)
    /\ i < j
    /\ send_log[i].key = send_log[j].key
    /\ send_log[j].began >= i

\* C5: of two alerts with the same key passed to send_alert one after the
\* other, the second checked less than cooldown_period_seconds after the first
\* was sent, exactly one is dispatched: the second is suppressed.
C5_SecondWithinCooldownSuppressed ==
    \A i, j \in 1..Len(send_log) :
        ( /\ OneAfterTheOther(i, j)
          /\ send_log[i].dispatched
          /\ send_log[i].result = "Ok"
          /\ send_log[j].checked_at - send_log[i].finished_at < cooldown_period_seconds )
        => ~send_log[j].dispatched

\* C6: when an alert key is fired once and fired again at least
\* cooldown_period_seconds later, neither alert is suppressed: both pass the
\* cooldown check and are handed to the sinks.
C6_SecondAfterCooldownDispatched ==
    \A i, j \in 1..Len(send_log) :
        ( /\ OneAfterTheOther(i, j)
          /\ send_log[j].checked_at - send_log[i].finished_at >= cooldown_period_seconds )
        => send_log[i].dispatched /\ send_log[j].dispatched

\* C6 witness: a key fired, the cooldown period (not zero) waited out, the
\* key fired again, both on the alert channel
C6_Witness ==
    \E i, j \in 1..Len(send_log) :
        /\ OneAfterTheOther(i, j)
        /\ cooldown_period_seconds > 0
        /\ send_log[j].checked_at - send_log[i].finished_at >= cooldown_period_seconds
        /\ send_log[i].result = "Ok"
        /\ send_log[j].result = "Ok"
        /\ Len(SelectSeq(alert_channel, LAMBDA a : get_alert_key(a) = send_log[i].key)) = 2

\* C7: of two concurrent send_alert calls with the same key at most one
\* passes the cooldown check: never are two tasks past the check, about to
\* dispatch, with the same alert key.
C7_AtMostOnePassesTheCheck ==
    \A t1, t2 \in Tasks :
        ( /\ t1 # t2
          /\ task_pc[t1] = "fan_out"
          /\ task_pc[t2] = "fan_out" )
        => get_alert_key(task_alert[t1]) # get_alert_key(task_alert[t2])

\* C8: after set_threshold(address, t), a check_balance_alert(address, b) with
\* b < t that has returned has put a LowBalance alert with that address, b and
\* t on the alert channel.
C8_LowBalanceAfterSetThreshold ==
    \A t \in Tasks :
        ( /\ task_call[t].op = "check_balance_alert"
          /\ task_call[t].result = "Ok"
          /\ task_call[t].requested # << >>
          /\ task_call[t].value < task_call[t].requested[1] )
        => \E k \in 1..Len(alert_channel) :
              /\ alert_channel[k].kind = "LowBalance"
              /\ alert_channel[k].subject = task_call[t].subject
              /\ alert_channel[k].value = task_call[t].value
              /\ alert_channel[k].threshold = task_call[t].requested[1]

\* C9: check_balance_alert raises a LowBalance alert only when the address
\* has a threshold t and balance b < t; the severity is Critical when
\* b < t/10, otherwise Error when b < t/2, otherwise Warning, the quotients
\* being u64 divisions: b < t/10 iff 10(b+1) <= t, b < t/2 iff 2(b+1) <= t.
C9_LowBalanceSeverity ==
    rule_call.op = "check_balance_alert" =>
        LET b == rule_call.value
            raised == rule_call.outcome # "none"
        IN  /\ raised <=> (rule_call.threshold # << >> /\ b < rule_call.threshold[1])
            /\ raised =>
                 LET t == rule_call.threshold[1]
                 IN  rule_call.outcome =
                        IF 10 * (b + 1) <= t THEN "Critical"
                        ELSE IF 2 * (b + 1) <= t THEN "Error"
                        ELSE "Warning"

\* C9 witness: a balance of exactly half an even threshold, rated Warning
C9_Witness ==
    /\ rule_call.op = "check_balance_alert"
    /\ rule_call.threshold # << >>
    /\ rule_call.value > 0
    /\ 2 * rule_call.value = rule_call.threshold[1]
    /\ rule_call.outcome = "Warning"

\* C10: check_large_transfer raises a LargeTransfer alert exactly when
\* amount > threshold, Critical when amount > 10 x threshold, otherwise Error
\* when amount > 5 x threshold, otherwise Warning, for every amount and
\* threshold.
C10_LargeTransferSeverity ==
    rule_call.op = "check_large_transfer" =>
        LET a == rule_call.value
            t == rule_call.threshold[1]
        IN  rule_call.outcome =
               IF a > t
               THEN IF a > 10 * t THEN "Critical"
                    ELSE IF a > 5 * t THEN "Error"
                    ELSE "Warning"
               ELSE "none"

\* C11: when an enabled sink fails during send_alert, the alert is still
\* delivered to the alert channel and no error reaches the caller of the rule
\* check: every send_alert that passed the cooldown check returns Ok with its
\* alert on the alert channel, and no call on the alert system returns Err.
C11_SinkFailureIsolated ==
    /\ \A i \in 1..Len(send_log) :
          send_log[i].dispatched =>
              /\ send_log[i].result = "Ok"
              /\ \E k \in 1..Len(alert_channel) : alert_channel[k] = send_log[i].alert
    /\ \A t \in Tasks : task_call[t].result # "Err"

\* C12: when an alert that is not in cooldown is dispatched and a sink fails,
\* its key is in the cooldown table with the time of the dispatch.
C12_CooldownRecordedOnSinkFailure ==
    \A i \in 1..Len(send_log) :
        (send_log[i].dispatched /\ send_log[i].result = "Err") =>
            /\ send_log[i].key \in DOMAIN last_alert_times
            /\ last_alert_times[send_log[i].key] >= send_log[i].checked_at
            /\ last_alert_times[send_log[i].key] <= send_log[i].finished_at

\* C13: no event is received from the event channel and discarded: every
\* event the processing loop has taken from the channel has been passed to
\* the ledger's process_transfer_event, which leaves its recipient with a
\* balance and a history.
C13_ReceivedEventsApplied ==
    /\ n_events >= Len(events_received)
    /\ \A i \in 1..Len(events_received) :
          /\ events_received[i].recipient \in DOMAIN address_balances
          /\ events_received[i].recipient \in DOMAIN transaction_history

\* C14: start_monitoring on a poller whose running flag is set is a no-op:
\* the flag stays set and no polling loop is added.
C14_StartWhileRunningIsNoOp ==
    (monitor_call.op = "start_monitoring" /\ monitor_call.was_running) =>
        /\ running
        /\ Len(poll_loops) = monitor_call.loops_before

\* C14 witness: start_monitoring was called on a running poller, and there
\* is still the one polling loop
C14_Witness ==
    /\ monitor_call.op = "start_monitoring"
    /\ monitor_call.was_running
    /\ running
    /\ Len(poll_loops) = 1

\* C15: once stop_monitoring has cleared the running flag, the polling loop
\* sees it at its next tick and stops: no poll cycle is started at a tick
\* where the flag is cleared.
C15_NoPollCycleOnceStopped ==
    monitor_call.op = "poll_tick" => monitor_call.was_running

\* C16: retry_operation(op, N, base) invokes op at most N times in total.
C16_AtMostNInvocations ==
    max_retries >= 1 => Len(op_outcomes) <= max_retries

\* the kinds of a network or timeout error; TrackerError::network_error(..)
\* builds the SuiClientError variant
NetworkOrTimeoutKinds == {"NetworkError", "SuiClientError", "TimeoutError"}

\* C17: when op fails with an error of a kind other than network/timeout,
\* retry_operation returns that error at once: that invocation is the last,
\* and no backoff sleep follows it (none at all when it is the first).
C17_NonRetriableReturnsAtOnce ==
    \A i \in 1..Len(op_outcomes) :
        op_outcomes[i] \in ErrorKinds \ NetworkOrTimeoutKinds =>
            /\ i = Len(op_outcomes)
            /\ retry_pc = "done"
            /\ retry_result = op_outcomes[i]
            /\ Len(sleeps) = i - 1

\* C17 witness: the first invocation fails with a Configuration error while
\* retries were allowed; the call has returned it without sleeping
C17_Witness ==
    /\ max_retries >= 1
    /\ op_outcomes = <<"Configuration">>
    /\ retry_pc = "done"
    /\ retry_result = "Configuration"
    /\ sleeps = << >>

\* C18: if op fails with retriable errors on its first k-1 invocations, k-1
\* not above max_retries, and succeeds on the k-th, retry_operation returns
\* that success after exactly k invocations: after k-1 <= max_retries
\* retriable failures the k-th invocation is made, a success ends the call
\* with Ok, and no invocation follows a success.
C18_SuccessAfterRetries ==
    LET k == Len(op_outcomes)
        FailedRetriably(n) == \A i \in 1..n : op_outcomes[i] \in NetworkOrTimeoutKinds
    IN  /\ (k >= 1 /\ k - 1 <= max_retries /\ FailedRetriably(k - 1) /\ op_outcomes[k] = "Ok")
               => (retry_pc = "done" /\ retry_result = "Ok")
        /\ (retry_pc # "idle" /\ k <= max_retries /\ FailedRetriably(k))
               => (retry_pc = "loop" /\ retry_result = "none" /\ Len(sleeps) = k)
        /\ \A i \in 1..(k - 1) : op_outcomes[i] # "Ok"

\* C18 witness: op failed retriably max_retries times (twice or more) and
\* succeeded on the next invocation
C18_Witness ==
    /\ max_retries >= 2
    /\ Len(op_outcomes) = max_retries + 1
    /\ \A i \in 1..max_retries : op_outcomes[i] \in NetworkOrTimeoutKinds
    /\ op_outcomes[max_retries + 1] = "Ok"
    /\ retry_pc = "done"
    /\ retry_result = "Ok"

\* C19: a poll task sends an event only if its timestamp is strictly greater
\* than the watermark the task read: the events it put on the channel all
\* have timestamp > last_time.
C19_OnlyNewerThanWatermarkEmitted ==
    monitor_call.op = "fetch_task" =>
        LET n == Len(monitor_call.sent) IN
        /\ Len(event_channel) >= n
        /\ SubSeq(event_channel, Len(event_channel) - n + 1, Len(event_channel))
               = monitor_call.sent
        /\ \A k \in 1..n : monitor_call.sent[k].timestamp > monitor_call.last_time

\* C19 witness: a poll task fetched a well-formed event whose timestamp
\* equals the (advanced) watermark and sent nothing
C19_Witness ==
    /\ monitor_call.op = "fetch_task"
    /\ monitor_call.ok
    /\ monitor_call.last_time > 0
    /\ Len(monitor_call.events) = 1
    /\ monitor_call.events[1].recipient # ""
    /\ monitor_call.events[1].timestamp = monitor_call.last_time
    /\ monitor_call.sent = << >>

\* C20: the watermark of an address that stays registered never decreases,
\* whatever step is taken (poll tasks, concurrent or not, force checks,
\* calls on other addresses).
C20_WatermarkNeverDecreases ==
    [][\A a \in addresses \cap addresses' :
           (a \in DOMAIN address_last_checked /\ a \in DOMAIN address_last_checked')
               => address_last_checked'[a] >= address_last_checked[a]]_vars

\* C20 witness: a poll task has advanced the watermark of a registered
\* address while a task of another polling loop for that address is in flight
C20_Witness ==
    /\ monitor_call.op = "fetch_task"
    /\ monitor_call.address \in addresses
    /\ address_last_checked[monitor_call.address] > monitor_call.last_time
    /\ \E l \in 1..Len(poll_loops) : monitor_call.address \in poll_loops[l]

\* a step that is the end of a poll task
IsFetchTaskStep == n_fetches' = n_fetches + 1 /\ monitor_call'.op = "fetch_task"

\* the watermark table with the entry of address a set to time t
WithWatermark(table, a, t) ==
    [x \in (DOMAIN table) \cup {a} |-> IF x = a THEN t ELSE table[x]]

\* C21: after a successful fetch in a poll cycle the address's watermark is
\* the current poll time if at least one event of the batch was put on the
\* channel, and the watermark table is as before if none was.
C21_WatermarkAdvancesIffEmitted ==
    [][(IsFetchTaskStep /\ monitor_call'.ok) =>
           IF Len(event_channel') > Len(event_channel)
           THEN address_last_checked'
                    = WithWatermark(address_last_checked, monitor_call'.address, now)
           ELSE address_last_checked' = address_last_checked]_vars

\* C21 witness: a poll task sent an event and its address's watermark, read
\* as an earlier time, is now the poll time
C21_Witness ==
    /\ monitor_call.op = "fetch_task"
    /\ monitor_call.ok
    /\ monitor_call.sent # << >>
    /\ monitor_call.last_time < now
    /\ monitor_call.address \in DOMAIN address_last_checked
    /\ address_last_checked[monitor_call.address] = now

\* C22: when the fetch of a poll task fails, the watermark table is left as
\* it was and nothing is put on the event channel.
C22_FailedFetchChangesNothing ==
    [][(IsFetchTaskStep /\ ~monitor_call'.ok) =>
           /\ address_last_checked' = address_last_checked
           /\ event_channel' = event_channel]_vars

\* C22 witness: the fetch for an address whose watermark had been advanced
\* failed, and the watermark is still the advanced one
C22_Witness ==
    /\ monitor_call.op = "fetch_task"
    /\ ~monitor_call.ok
    /\ monitor_call.sent = << >>
    /\ monitor_call.last_time > 0
    /\ monitor_call.address \in DOMAIN address_last_checked
    /\ address_last_checked[monitor_call.address] = monitor_call.last_time

\* the records of a batch that are newer than last_time and have a recipient
WantedEvents(events, last_time) ==
    SelectSeq(events, LAMBDA e : e.timestamp > last_time /\ e.recipient # "")

\* the fields of the sent TransferEvents that come from the fetched records
AsFetched(sent) ==
    [k \in 1..Len(sent) |->
        [sender |-> sent[k].sender, recipient |-> sent[k].recipient,
         amount |-> sent[k].amount, timestamp |-> sent[k].timestamp]]

\* C23: within one poll cycle the failed fetch of one address neither stops
\* nor fails the task of another: when a task ends, failed or not, the other
\* tasks of its cycle stay in flight; a task that succeeds after another of
\* its cycle has failed sends its new events and advances its watermark; and
\* the cycle returns Ok when its last task has ended.
C23_FetchFailuresIsolated ==
    [][\A l \in 1..Len(poll_loops) :
           (IsFetchTaskStep /\ poll_loops'[l] # poll_loops[l]) =>
               LET a == monitor_call'.address
                   last_time == IF a \in DOMAIN address_last_checked
                                THEN address_last_checked[a] ELSE 0
                   wanted == WantedEvents(monitor_call'.events, last_time)
               IN  /\ poll_loops'[l] = poll_loops[l] \ {a}
                   /\ poll_cycles'[l].result = IF poll_loops'[l] = {} THEN "Ok" ELSE "running"
                   /\ (monitor_call'.ok /\ poll_cycles[l].failed # {}) =>
                          /\ Len(event_channel') = Len(event_channel) + Len(wanted)
                          /\ AsFetched(SubSeq(event_channel', Len(event_channel) + 1,
                                              Len(event_channel'))) = wanted
                          /\ wanted # << >> => address_last_checked'[a] = now]_vars

\* C23 witness: in the one cycle of the one polling loop the fetch of an
\* address failed, and the task of another address then sent its new event
\* and advanced its watermark; the cycle has returned Ok
C23_Witness ==
    /\ Len(poll_loops) = 1
    /\ poll_cycles[1].failed # {}
    /\ poll_cycles[1].result = "Ok"
    /\ monitor_call.op = "fetch_task"
    /\ monitor_call.ok
    /\ monitor_call.address \notin poll_cycles[1].failed
    /\ monitor_call.sent # << >>
    /\ monitor_call.address \in DOMAIN address_last_checked
    /\ address_last_checked[monitor_call.address] > monitor_call.last_time

\* C24: of a fetched batch, a record without a recipient is dropped alone:
\* every record newer than the watermark the task read that has a recipient
\* is sent, in the order of the batch, and nothing else is.
C24_ParseFailureDropsOneRecord ==
    (monitor_call.op = "fetch_task" /\ monitor_call.ok) =>
        LET n == Len(monitor_call.sent) IN
        /\ AsFetched(monitor_call.sent)
               = WantedEvents(monitor_call.events, monitor_call.last_time)
        /\ Len(event_channel) >= n
        /\ SubSeq(event_channel, Len(event_channel) - n + 1, Len(event_channel))
               = monitor_call.sent

\* C24 witness: a batch of two records newer than the watermark, the first
\* without a recipient, the second sent
C24_Witness ==
    /\ monitor_call.op = "fetch_task"
    /\ monitor_call.ok
    /\ Len(monitor_call.events) = 2
    /\ monitor_call.events[1].recipient = ""
    /\ monitor_call.events[1].timestamp > monitor_call.last_time
    /\ monitor_call.events[2].recipient # ""
    /\ monitor_call.events[2].timestamp > monitor_call.last_time
    /\ Len(monitor_call.sent) = 1
    /\ monitor_call.sent[1].timestamp = monitor_call.events[2].timestamp

\* the strings that are "0x" and 64 hex digits
WellFormedAddresses == {"A", "B"}

C26_WatermarkTableMatchesRegistry ==
    DOMAIN address_last_checked = addresses

\* a step that is a cleanup_old_transactions call
IsCleanupStep ==
    /\ ledger_call'.op = "cleanup_old_transactions"
    /\ n_events' = n_events
    /\ now' = now

\* C27: cleanup_old_transactions changes only the history lists: the
\* balances and the stats are the same before and after the call.
C27_CleanupLeavesBalancesAndStats ==
    [][IsCleanupStep =>
           /\ address_balances' = address_balances
           /\ address_stats' = address_stats
           /\ DOMAIN transaction_history' = DOMAIN transaction_history]_vars

\* C27 witness: a cleanup has removed transactions and emptied a history
\* list, and the address of that list still has its balance and its stats
C27_Witness ==
    /\ ledger_call.op = "cleanup_old_transactions"
    /\ ledger_call.removed >= 1
    /\ \E a \in DOMAIN transaction_history :
          /\ transaction_history[a] = << >>
          /\ a \in DOMAIN address_balances
          /\ address_balances[a] > 0
          /\ a \in DOMAIN address_stats
          /\ address_stats[a].total_transactions > 0

\* the stats of an address before it has any
NoStats ==
    [total_transactions |-> 0, total_sent |-> 0, total_received |-> 0,
     first_transaction |-> << >>, last_transaction |-> << >>,
     largest_transaction |-> 0, smallest_transaction |-> U64_MAX]

\* C28: the stats are what a replay of the applied events gives: every
\* applied event adds one to total_transactions of its sender and one to that
\* of its recipient, its amount to total_sent of the sender and to
\* total_received of the recipient, and takes part in the max/min of the
\* amounts and the min/max of the timestamps; a cleanup changes no stats.
C28_StatsAreReplayOfAppliedEvents ==
    [][/\ (n_events' = n_events + 1 /\ ledger_call'.result = "Ok") =>
             LET e == ledger_call'.event IN
             \A a \in {e.sender, e.recipient} :
                 LET old == IF a \in DOMAIN address_stats THEN address_stats[a] ELSE NoStats
                     new == address_stats'[a]
                     sent == IF a = e.sender THEN 1 ELSE 0
                     received == IF a = e.recipient THEN 1 ELSE 0
                 IN  /\ new.total_transactions = old.total_transactions + sent + received
                     /\ new.total_sent = old.total_sent + sent * e.amount
                     /\ new.total_received = old.total_received + received * e.amount
                     /\ new.largest_transaction = Max(old.largest_transaction, e.amount)
                     /\ new.smallest_transaction = Min(old.smallest_transaction, e.amount)
                     /\ new.first_transaction =
                            IF old.first_transaction = << >> THEN <<e.timestamp>>
                            ELSE <<Min(old.first_transaction[1], e.timestamp)>>
                     /\ new.last_transaction =
                            IF old.last_transaction = << >> THEN <<e.timestamp>>
                            ELSE <<Max(old.last_transaction[1], e.timestamp)>>
       /\ IsCleanupStep => address_stats' = address_stats]_vars

\* the ledger after process_transfer_event(event) on the ledger l, run alone
SeriallyApplied(l, event) ==
    LET tx == MakeTransaction(event, event.transaction_id)
        pushed == PushHistory(l.history, tx)
    IN  {[balances |-> UpdateBalances(l.balances, event),
          history |-> IF out.panic THEN pushed ELSE enforce_history_limits(pushed),
          stats |-> out.stats] :
             out \in update_address_stats(l.stats, event.sender, event.recipient, tx)}

\* the ledgers that the calls of the callers in `order`, run one after the
\* other in that order on an empty ledger, can leave
RECURSIVE SerialLedgers(_)
SerialLedgers(order) ==
    IF order = << >>
    THEN {[balances |-> EmptyMap, history |-> EmptyMap, stats |-> EmptyMap]}
    ELSE UNION {SeriallyApplied(l, proc_call[order[Len(order)]].event) :
                   l \in SerialLedgers(SubSeq(order, 1, Len(order) - 1))}

\* a caller between its first write and its return
Writing(t) == proc_pc[t] \in {"history", "stats", "limits"}

\* C29: concurrent process_transfer_event calls leave the balances, the
\* histories and the stats as the same calls do when run one at a time in
\* some order, and the writes of one call are never interleaved with those
\* of another: no call writes while another is between its first write and
\* its return.
C29_CallsAreSerializable ==
    /\ \A t, u \in Procs :
          (t # u /\ Writing(t)) => proc_pc[u] \notin {"balances", "history", "stats", "limits"}
    /\ (\A t \in Procs : proc_pc[t] \in {"idle", "done"}) =>
          LET done == {t \in Procs : proc_pc[t] = "done"}
              orders == {order \in UNION {[1..n -> done] : n \in 0..Cardinality(done)} :
                            /\ Len(order) = Cardinality(done)
                            /\ \A i, j \in 1..Len(order) : i # j => order[i] # order[j]}
          IN  [balances |-> address_balances, history |-> transaction_history,
               stats |-> address_stats]
                  \in UNION {SerialLedgers(order) : order \in orders}

\* C29 witness: two calls, the second made while the first was under way,
\* have both returned, and the two orders of the calls give different ledgers
C29_Witness ==
    /\ \A t \in Procs : proc_pc[t] = "done"
    /\ \E t \in Procs : proc_call[t].concurrent
    /\ SerialLedgers(<<1, 2>>) \cap SerialLedgers(<<2, 1>>) = {}

\* C30: get_transaction_volume_stats(h) returns, for each token type, the
\* sum of the amounts of the retained transactions with timestamp >=
\* now - h * 3600, each transaction counted once.
C30_VolumeCountsEachTransactionOnce ==
    [][volume_call' # volume_call =>
           LET start_time == Max(0, now - volume_call'.time_range_hours * SecondsPerHour)
               retained == UNION {{transaction_history[a][i] :
                                      i \in 1..Len(transaction_history[a])} :
                                  a \in DOMAIN transaction_history}
               wanted == {tx \in retained : tx.timestamp >= start_time}
               tokens == {tx.token_type : tx \in wanted}
               Amount(token) == [tx \in {x \in wanted : x.token_type = token} |-> tx.amount]
           IN  /\ volume_call'.result = "Ok"
               /\ volume_call'.volume =
                      [token \in tokens |-> SumOver(Amount(token), DOMAIN Amount(token))]]_vars

\* C39: after any sequence of start_monitoring and stop_monitoring calls at
\* most one polling loop is alive (a spawned loop never ends: every loop of
\* poll_loops is alive), so no two tasks fetch for one address at a time.
C39_AtMostOnePollingLoop ==
    /\ Len(poll_loops) <= 1
    /\ \A l, m \in 1..Len(poll_loops) : l # m => poll_loops[l] \cap poll_loops[m] = {}

\* C40: the stop check of the processing loop always gets the read guard of
\* the tracker's running flag: it is never left waiting for a guard that
\* start_monitoring holds for as long as the loop runs.
C40_StopCheckNeverBlocks ==
    tracker_pc # "blocked"

\* a step that is one query of force_check_all_addresses
IsForceCheckQuery ==
    /\ monitor_call'.op = "force_check_query"
    /\ n_fetches' = n_fetches + 1

\* C35: force_check_all_addresses emits every fetched event that parses,
\* whatever the watermark of the address, and no other; it leaves every
\* watermark as it is; a failed query emits nothing and the check goes on to
\* the addresses that are left; after the last address it returns the number
\* of events it emitted.
C35_ForceCheckEmitsAllParsed ==
    [][/\ monitor_call'.op = "force_check_all_addresses" =>
             /\ address_last_checked' = address_last_checked
             /\ event_channel' = event_channel
             /\ force_check'.total = 0
             /\ force_check'.pending = addresses
             /\ monitor_call'.returned = (IF addresses = {} THEN <<0>> ELSE << >>)
       /\ IsForceCheckQuery =>
             LET call == monitor_call'
                 emitted == SubSeq(event_channel', Len(event_channel) + 1, Len(event_channel'))
                 left == force_check.pending \ {call.address}
             IN  /\ address_last_checked' = address_last_checked
                 /\ SubSeq(event_channel', 1, Len(event_channel)) = event_channel
                 /\ AsFetched(emitted) =
                        (IF call.ok
                         THEN SelectSeq(call.events, LAMBDA e : e.recipient # "")
                         ELSE << >>)
                 /\ IF left = {}
                    THEN call.returned = <<force_check.total + Len(emitted)>>
                    ELSE /\ call.returned = << >>
                         /\ force_check'.active
                         /\ force_check'.pending = left
                         /\ force_check'.total = force_check.total + Len(emitted)]_vars

\* C35 witness: a force check over two addresses has returned 1: the query
\* of its last address failed, and the event it emitted for the other
\* address is not later than any watermark
C35_Witness ==
    /\ monitor_call.op = "force_check_query"
    /\ ~monitor_call.ok
    /\ monitor_call.returned = <<1>>
    /\ Cardinality(addresses) = 2
    /\ event_channel # << >>
    /\ \A a \in addresses :
          event_channel[Len(event_channel)].timestamp <= address_last_checked[a]

\* C36: an event a poll cycle emitted for an address is not emitted again by
\* a later cycle that fetches it again: when a poll task has emitted events,
\* the watermark of its address is at least the timestamp of each of them
\* (a later task emits only events later than the watermark).
C36_EmittedEventsNotLaterThanWatermark ==
    [][(IsFetchTaskStep /\ monitor_call'.address \in addresses) =>
           \A k \in 1..Len(monitor_call'.sent) :
               /\ monitor_call'.address \in DOMAIN address_last_checked'
               /\ address_last_checked'[monitor_call'.address]
                      >= monitor_call'.sent[k].timestamp]_vars

\* the positions of a history list whose entry is older than max_age at time t
TooOld(transactions, t, max_age) ==
    {i \in 1..Len(transactions) : t - transactions[i].timestamp > max_age}

\* C34: cleanup_old_transactions(max_age) removes from every address's
\* history exactly the entries with now - timestamp > max_age, keeps all
\* the others in their order, and returns the number of entries removed
\* over all addresses (0 on an empty ledger).
C34_CleanupRemovesExactlyTheOld ==
    [][\A max_age \in 0..MaxTime :
           (IsCleanupStep /\ cleanup_old_transactions(max_age)) =>
               /\ DOMAIN transaction_history' = DOMAIN transaction_history
               /\ \A a \in DOMAIN transaction_history :
                      transaction_history'[a] =
                          SelectSeq(transaction_history[a],
                                    LAMBDA tx : ~(now - tx.timestamp > max_age))
               /\ ledger_call'.result = "Ok"
               /\ ledger_call'.removed =
                      SumOver([a \in DOMAIN transaction_history |->
                                  Cardinality(TooOld(transaction_history[a], now, max_age))],
                              DOMAIN transaction_history)
               /\ transaction_history = EmptyMap => ledger_call'.removed = 0]_vars

\* C34 witness: a cleanup has removed entries, and it has kept an entry of
\* this very second, which is as old as the smallest max_age
C34_Witness ==
    /\ ledger_call.op = "cleanup_old_transactions"
    /\ ledger_call.removed >= 2
    /\ \E a \in DOMAIN transaction_history :
          \E i \in 1..Len(transaction_history[a]) :
              transaction_history[a][i].timestamp = now

\* the number of entries of a list with timestamp t
CountAt(transactions, t) ==
    Cardinality({i \in 1..Len(transactions) : transactions[i].timestamp = t})

\* C33: when the history of an address is cut by process_transfer_event, the
\* oldest records go first: the records kept are records of the list as it
\* was after the pushes, and each of them has a timestamp >= that of every
\* record dropped.
C33_TruncationDropsOldest ==
    [][n_events' = n_events + 1 =>
           LET e == ledger_call'.event
               tx == MakeTransaction(e, e.transaction_id)
               before(a) == IF a \in DOMAIN transaction_history
                            THEN transaction_history[a] ELSE << >>
               pushed(a) == before(a) \o (IF a = e.sender THEN <<tx>> ELSE << >>)
                                      \o (IF a = e.recipient THEN <<tx>> ELSE << >>)
               kept(a) == transaction_history'[a]
               Dropped(a, t) == CountAt(pushed(a), t) - CountAt(kept(a), t)
           IN  \A a \in DOMAIN transaction_history' :
                   /\ \A i \in 1..Len(kept(a)) : \E j \in 1..Len(pushed(a)) : kept(a)[i] = pushed(a)[j]
                   /\ \A t \in Times :
                          /\ Dropped(a, t) >= 0
                          /\ Dropped(a, t) > 0 =>
                                 \A i \in 1..Len(kept(a)) : kept(a)[i].timestamp >= t]_vars

\* C33 witness: the event just applied was older than the record its sender
\* already had, and it is the one that was dropped from the sender's list
C33_Witness ==
    /\ IsProcessCall
    /\ ledger_call.result = "Ok"
    /\ ledger_call.event.sender # ledger_call.event.recipient
    /\ Len(transaction_history[ledger_call.event.sender]) = max_history_records
    /\ \A i \in 1..Len(transaction_history[ledger_call.event.sender]) :
          /\ transaction_history[ledger_call.event.sender][i].id
                 # ledger_call.event.transaction_id
          /\ transaction_history[ledger_call.event.sender][i].timestamp
                 > ledger_call.event.timestamp

\* C32: in every ledger state the balances, the stats and the history have
\* the same addresses as keys (so export_data's CSV, which writes a row for
\* an address of balances only if it has stats, has a row for every address
\* of balances).
C32_SameKeysInTheThreeMaps ==
    /\ DOMAIN address_balances = DOMAIN address_stats
    /\ DOMAIN address_balances = DOMAIN transaction_history

\* C37: when more than 10 transactions of a sender have been checked within
\* the window (here: in the same second), check_suspicious_activity on a
\* further transaction of that sender raises a SuspiciousActivity alert with
\* activity type high_frequency_transactions, risk Medium and severity
\* Warning.
C37_HighFrequencySenderFlagged ==
    [][\A t \in Tasks :
           (/\ task_call'[t] # task_call[t]
            /\ task_call'[t].op = "check_suspicious_activity"
            /\ task_call'[t].subject \in DOMAIN transactions_checked
            /\ transactions_checked[task_call'[t].subject] > HighFrequencyLimit
            /\ transactions_checked' # transactions_checked) =>
               /\ task_pc'[t] = "cooldown_check"
               /\ task_alert'[t] =
                      SuspiciousActivity(task_call'[t].subject, "high_frequency_transactions",
                                         "Medium", "Warning", now)]_vars

\* the callers whose call is a process_transfer_event that has begun
Appliers == {t \in Procs : proc_call[t].op = "process_transfer_event"}

\* the orders in which the calls of some of the appliers can be run
ApplierOrders ==
    {order \in UNION {[1..n -> Appliers] : n \in 0..Cardinality(Appliers)} :
        \A i, j \in 1..Len(order) : i # j => order[i] # order[j]}

\* C31: the balances and the stats export_data returns belong to one ledger
\* state: there is a set of applied events, run in some order, that gives
\* both the exported balances and the exported stats.
C31_ExportIsOneLedgerState ==
    \A t \in Procs :
        (proc_call[t].op \in {"export_json", "export_csv"} /\ proc_pc[t] = "done") =>
            \E order \in ApplierOrders :
                \E l \in SerialLedgers(order) :
                    LET rows == IF proc_call[t].op = "export_csv"
                                THEN (DOMAIN l.balances) \cap (DOMAIN l.stats)
                                ELSE DOMAIN l.balances
                    IN  /\ proc_call[t].balances = [a \in rows |-> l.balances[a]]
                        /\ proc_call[t].stats =
                               [a \in (IF proc_call[t].op = "export_csv" THEN rows
                                       ELSE DOMAIN l.stats) |-> l.stats[a]]

\* the place of a lock in the order balances -> history -> stats
LockRank(lock) ==
    CASE lock = "address_balances" -> 1
      [] lock = "transaction_history" -> 2
      [] OTHER -> 3

\* the locks of which caller t holds a guard
HeldBy(t) == {lock \in Locks : t \in write_guards[lock] \cup read_guards[lock]}

\* a caller that waits for a lock holds guards of earlier locks only
LocksTakenInOrder ==
    \A t \in Procs :
        lock_of(proc_pc[t]) # "none" =>
            \A held \in HeldBy(t) : LockRank(held) < LockRank(lock_of(proc_pc[t]))

\* C38: no interleaving of the ledger's operations deadlocks: every
\* operation asks for the locks in the order balances -> history -> stats
\* (a caller waiting for a lock holds guards of earlier locks only), and
\* every operation that has begun returns.
C38_OrderedLocksAndCompletion ==
    /\ []LocksTakenInOrder
    /\ \A t \in Procs : (proc_pc[t] \notin {"idle", "done"}) ~> (proc_pc[t] = "done")

\* C38 witness: a process_transfer_event and an operation that reads two
\* maps, one begun while the other was under way, have both returned
C38_Witness ==
    /\ \A t \in Procs : proc_pc[t] = "done"
    /\ \E t \in Procs : proc_call[t].concurrent
    /\ \E t, u \in Procs :
          /\ proc_call[t].op = "process_transfer_event"
          /\ proc_call[u].op \in {"export_json", "export_csv", "get_processor_stats"}
          /\ proc_call[u].returned # << >>

====
